---------------------------- MODULE Spec2Model ----------------------------
(***************************************************************************)
(* A model of the ReLeaf dashboard: the action plan generator              *)
(* (src/src/ml/actionPlanGenerator.ts), the heat zone generator            *)
(* (src/src/ml/heatIslandAnalysis.ts), the environmental data aggregator   *)
(* (src/src/services/realTimeDataService.ts), the climate impact analyzer  *)
(* (src/src/ml/climateImpactAnalyzer.ts) and the session logic of          *)
(* src/src/App.tsx.                                                        *)
(*                                                                         *)
(* Numbers that are fractions in the source are fixed-point integers here; *)
(* each operator states its unit.  A value that the source may hold as     *)
(* null is a record with null |-> TRUE.                                    *)
(***************************************************************************)
EXTENDS Integers, Sequences, FiniteSets, TLC

VARIABLES
    \* ---- ActionPlanGenerator.generatePlans, one run ----
    gpState,        \* "idle" | "running" | "resolved" | "rejected"
    gpTrained,      \* this.model && this.isTrained of the plan generator
    gpCity,         \* the city argument
    gpWeather,      \* realTimeWeather (line 199), null when the fetch failed
    gpEnv,          \* realTimeEnvironmental (line 200)
    gpUsed,         \* usedActionTypes (line 196)
    gpPlans,        \* plans (line 195): <<[type, zone]>>
    gpZoneNo,       \* number of zones the loop of line 210 has taken
    gpLast,         \* what the last iteration of the loop saw and emitted
    \* ---- HeatIslandPredictor.generateHeatZones, one run ----
    gzState,        \* "idle" | "running" | "resolved"
    gzTrained,      \* this.model && this.isTrained of the predictor
    gzCity,         \* the city argument
    gzClimate,      \* realTimeClimateData (lines 280-317)
    gzZones,        \* zones (line 276)
    \* ---- RealTimeDataService.getRealTimeEnvironmentalData ----
    envNow,         \* Date.now(), in minutes
    envCache,       \* the cache entry "environmental_<lat>_<lon>" per place
    envCalls,       \* the calls made so far, in the order they were issued
    \* ---- the session of App.tsx ----
    strictDev,      \* the build double-invokes effects (StrictMode, main.tsx)
    mounted,        \* the effect of lines 31-77 has run
    runPc,          \* where each invocation of initializeModels stands
    microQ,         \* the invocations ready to continue, in microtask order
    timer,          \* the timeout of line 35 of each invocation
    isModelTraining,
    isTrained,      \* isTrained of the three predictors
    fitOngoing,     \* a fit() is ongoing on the predictor's current model
    climateIsTraining, \* isTraining of the ClimateImpactAnalyzer
    fits,           \* fits started per predictor
    transitions,    \* changes of isTrained from false to true per predictor
    trainFailed,    \* a trainModel call on the predictor has failed
    trainedAfterFail,  \* the predictor became trained after such a failure
    calledAfterFail,   \* trainModel was called on it after such a failure
    earlyTimeout,   \* a timer fired before all three predictors were trained
    trainedAfterTimeout, \* the predictor became trained after that
    selectedCity,   \* the id of the selected city, "none" before the first
    anStage,        \* the await handleAnalyze stands at, "idle" when none
    anStatus,       \* how each call of the last handleAnalyze ended
    anTrainedAfterTimeout, \* a prediction after an early timeout used a
                    \* trained predictor
    anCity,         \* selectedCity as the running handleAnalyze captured it
    anPaths,        \* per zone of the running generateHeatZones: the trained
                    \* network predicted it
    anHeatAtStart,  \* isTrained of the heat predictor when it was called
    shown,          \* the city each displayed result was computed for
    \* ---- one application of a calculator ----
    calcFn,         \* the function applied last, "none" before the first
    calcIn,         \* its arguments
    calcOut,        \* what it returned
    \* ---- the requests of one getRealTimeEnvironmentalData call ----
    fxPc,           \* the request each part of the call is waiting for
    fxSilent,       \* the sources that never answer
    fxClimateOk,    \* climateData of line 731 is not null
    fxCached,       \* getRealTimeClimateData has stored a reading
    fxFailed,       \* the sources a request to which has failed
    fxRetried       \* the sources asked again after such a failure

plansVars == <<gpState, gpTrained, gpCity, gpWeather, gpEnv, gpUsed, gpPlans,
               gpZoneNo, gpLast>>
zonesVars == <<gzState, gzTrained, gzCity, gzClimate, gzZones>>

envVars == <<envNow, envCache, envCalls>>

trainVars == <<strictDev, mounted, runPc, microQ, timer, isModelTraining,
               isTrained, fitOngoing, climateIsTraining, fits, transitions,
               trainFailed, trainedAfterFail, calledAfterFail, earlyTimeout,
               trainedAfterTimeout>>
analyzeVars == <<selectedCity, anStage, anStatus, anTrainedAfterTimeout,
                 anCity, anPaths, anHeatAtStart, shown>>
sessionVars == <<trainVars, analyzeVars>>

calcVars == <<calcFn, calcIn, calcOut>>

fetchVars == <<fxPc, fxSilent, fxClimateOk, fxCached, fxFailed, fxRetried>>

vars == <<plansVars, zonesVars, envVars, sessionVars, calcVars, fetchVars>>

\* what each group of operations leaves alone
notPlans == <<zonesVars, envVars, sessionVars, calcVars, fetchVars>>
notZones == <<plansVars, envVars, sessionVars, calcVars, fetchVars>>
notEnv == <<plansVars, zonesVars, sessionVars, calcVars, fetchVars>>
notSession == <<plansVars, zonesVars, envVars, calcVars, fetchVars>>
notCalc == <<plansVars, zonesVars, envVars, sessionVars, fetchVars>>
notFetch == <<plansVars, zonesVars, envVars, sessionVars, calcVars>>

Null == [null |-> TRUE]

Min(a, b) == IF a < b THEN a ELSE b
Max(a, b) == IF a > b THEN a ELSE b

RECURSIVE SeqToSet(_)
SeqToSet(s) == IF s = <<>> THEN {} ELSE {Head(s)} \cup SeqToSet(Tail(s))

RECURSIVE Filter(_, _)
\* Array.prototype.filter with the predicate "is not in the set drop"
Filter(s, drop) ==
    IF s = <<>> THEN <<>>
    ELSE IF Head(s) \in drop THEN Filter(Tail(s), drop)
         ELSE <<Head(s)>> \o Filter(Tail(s), drop)

\* Array.prototype.slice(0, n)
Slice(s, n) == SubSeq(s, 1, Min(n, Len(s)))

\* no generateHeatZones run has started
IdleZones ==
    /\ gzState = "idle"
    /\ gzCity = Null
    /\ gzClimate = Null
    /\ gzZones = <<>>

\* the places the callers ask about
Places == {"phoenix"}

\* a fresh RealTimeDataService: nothing cached, no call made
IdleEnv ==
    /\ envNow = 0
    /\ envCache = [p \in Places |-> Null]
    /\ envCalls = <<>>

\* the three predictors, in the order initializeModels trains them
Models == <<"heat", "plan", "climate">>
ModelSet == {"heat", "plan", "climate"}
Runs == {1, 2}
Stages == {"zones", "plans", "impact", "future"}

\* the state of App.tsx that holds results (lines 17-22)
Results ==
    {"heatZones", "selectedZone", "environmentalData", "actionPlans",
     "climateImpact", "futurePredictions"}

\* the initial values of lines 17-22: empty lists and null
NothingShown == [f \in Results |-> "none"]

\* the page has not been mounted
IdleSession ==
    /\ mounted = FALSE
    /\ runPc = [r \in Runs |-> "idle"]
    /\ microQ = <<>>
    /\ timer = [r \in Runs |-> "unset"]
    /\ isModelTraining = TRUE
    /\ isTrained = [m \in ModelSet |-> FALSE]
    /\ fitOngoing = [m \in ModelSet |-> FALSE]
    /\ climateIsTraining = FALSE
    /\ fits = [m \in ModelSet |-> 0]
    /\ transitions = [m \in ModelSet |-> 0]
    /\ trainFailed = [m \in ModelSet |-> FALSE]
    /\ trainedAfterFail = [m \in ModelSet |-> FALSE]
    /\ calledAfterFail = [m \in ModelSet |-> FALSE]
    /\ earlyTimeout = FALSE
    /\ trainedAfterTimeout = [m \in ModelSet |-> FALSE]
    /\ selectedCity = "none"
    /\ anStage = "idle"
    /\ anStatus = [st \in Stages |-> "none"]
    /\ anTrainedAfterTimeout = FALSE
    /\ anCity = "none"
    /\ anPaths = <<>>
    /\ anHeatAtStart = FALSE
    /\ shown = NothingShown

\* the parts of one getRealTimeEnvironmentalData call: the six promises of
\* lines 706-731 and the rest of the function after Promise.all
FetchTasks ==
    {"climate", "airQuality", "nasa", "carbon", "energy", "vulnerable", "join"}

\* no call has been made
IdleFetch ==
    /\ fxPc = [t \in FetchTasks |-> "idle"]
    /\ fxClimateOk = FALSE
    /\ fxCached = FALSE
    /\ fxFailed = {}
    /\ fxRetried = {}

\* no calculator has been applied
IdleCalc ==
    /\ calcFn = "none"
    /\ calcIn = Null
    /\ calcOut = Null

(***************************************************************************)
(* Bounds of the model                                                     *)
(***************************************************************************)
MaxZones == 3
\* calls of getRealTimeEnvironmentalData in one run
MaxCalls == 2
\* minutes the clock runs
MaxTime == 3
\* temperatures given to the heat index, in tenths of a degree
MinHeatTemp == 700
MaxHeatTemp == 1150
\* relative humidity, in percent
MaxHumidity == 100
\* the clock of the cache reads runs from 0 to MaxClock minutes
MaxClock == 6

(***************************************************************************)
(* actionPlanGenerator.ts                                                  *)
(***************************************************************************)
actionTypes == <<"tree_planting", "green_roof", "cool_pavement", "urban_park",
                 "shade_structure", "water_feature", "smart_irrigation",
                 "cooling_center">>

ActionTypeSet == SeqToSet(actionTypes)

\* inputShape of the classifier's first layer
ModelInputWidth == 10
\* number of entries of the vector predictOptimalActions hands to the model
PredictFeatureCount == 12

\* a || b of JavaScript on numbers: 0 (and a missing value) count as absent
OrElse(a, b) == IF a = 0 THEN b ELSE a

WeatherTemperature(w) == IF w.null THEN 0 ELSE w.temperature
WeatherHumidity(w) == IF w.null THEN 0 ELSE w.humidity
WeatherAqi(w) == IF w.null THEN 0 ELSE w.aqi
EnvCarbon(e) == IF e.null THEN 0 ELSE e.carbonEmissions

\* numActions, lines 211-212
NumActions(zone) ==
    IF zone.severity = "critical" THEN 3
    ELSE IF zone.severity = "high" THEN 2 ELSE 1

Cond(b, s) == IF b THEN s ELSE <<>>

\* the rule list before the final slice, lines 349-398
EnhancedRules(zone, city, w, e) ==
    LET currentTemp == OrElse(WeatherTemperature(w), city.averageTemp)
        currentHumidity == OrElse(WeatherHumidity(w), 60)
        airQuality == OrElse(WeatherAqi(w), 3)
        carbonEmissions == OrElse(EnvCarbon(e), 0)
    IN  Cond(zone.vegetationIndex < 15, <<"tree_planting">>)
     \o Cond(zone.landUseType = "commercial" \/ currentTemp > 85, <<"green_roof">>)
     \o Cond(zone.surfaceAlbedo < 25 \/ currentTemp > 90, <<"cool_pavement">>)
     \o Cond(zone.buildingDensity > 70 /\ zone.vegetationIndex < 25, <<"urban_park">>)
     \o Cond(currentTemp > 95 /\ airQuality > 3, <<"shade_structure">>)
     \o Cond(currentHumidity > 80 \/ carbonEmissions > 8000, <<"water_feature">>)
     \o Cond(zone.vegetationIndex < 20 /\ currentTemp > 80, <<"smart_irrigation">>)
     \o Cond(currentTemp > 100 \/ zone.severity = "critical", <<"cooling_center">>)
     \o Cond(city.id = "phoenix" /\ currentTemp > 95,
             <<"cool_pavement", "shade_structure">>)
     \o Cond(city.id = "miami" /\ currentHumidity > 80,
             <<"green_roof", "water_feature">>)
     \o Cond(city.id = "las_vegas" /\ zone.landUseType = "commercial",
             <<"green_roof", "shade_structure">>)
     \o Cond(city.id = "houston" /\ carbonEmissions > 8000,
             <<"smart_irrigation", "water_feature">>)

enhancedFallbackActionSelection(zone, city, w, e) ==
    Slice(EnhancedRules(zone, city, w, e), 4)

getFallbackActions(zone, city, w, e) ==
    LET currentTemp == OrElse(WeatherTemperature(w), city.averageTemp)
        currentHumidity == OrElse(WeatherHumidity(w), 60)
        carbonEmissions == OrElse(EnvCarbon(e), 0)
    IN  (CASE zone.landUseType = "commercial" ->
                <<"shade_structure", "cool_pavement", "green_roof">>
           [] zone.landUseType = "residential" ->
                <<"tree_planting", "urban_park", "water_feature">>
           [] zone.landUseType = "industrial" ->
                <<"smart_irrigation", "cool_pavement", "green_roof">>
           [] OTHER -> <<"tree_planting", "urban_park", "water_feature">>)
     \o Cond(currentTemp > 95, <<"cooling_center", "shade_structure">>)
     \o Cond(currentHumidity > 80, <<"water_feature", "smart_irrigation">>)
     \o Cond(carbonEmissions > 8000, <<"tree_planting", "urban_park">>)

\* model.predict checks the input against the declared input shape and
\* throws when they differ (lines 314-330)
PredictThrows == PredictFeatureCount # ModelInputWidth

\* the top four of the eight action types by probability (lines 334-345):
\* any four distinct types in any order
TopFour ==
    {s \in [1..4 -> ActionTypeSet] : \A i, j \in 1..4 : i # j => s[i] # s[j]}

\* the lists predictOptimalActions can resolve to; none when it throws
predictOptimalActions(trained, zone, city, w, e) ==
    IF ~trained THEN {enhancedFallbackActionSelection(zone, city, w, e)}
    ELSE IF PredictThrows THEN {}
    ELSE TopFour

\* mutation of SelectedActions: the types used for earlier zones are not
\* filtered out
SelectedActionsUnfiltered(allPossibleActions, used, zone, city, w, e) ==
    LET fallbackActions == getFallbackActions(zone, city, w, e)
        additionalActions ==
            Filter(fallbackActions, SeqToSet(allPossibleActions))
    IN  Slice(allPossibleActions \o additionalActions, NumActions(zone))

\* lines 221-229: the action types one iteration emits, given the ranked list
SelectedActions(allPossibleActions, used, zone, city, w, e) ==
    LET availableActions == Filter(allPossibleActions, used)
        fallbackActions == getFallbackActions(zone, city, w, e)
        additionalActions ==
            Filter(fallbackActions, used \cup SeqToSet(availableActions))
    IN  Slice(availableActions \o additionalActions, NumActions(zone))

(***************************************************************************)
(* Inputs of generatePlans.  Each set holds one value per range that the   *)
(* thresholds of the rule lists tell apart.                                *)
(***************************************************************************)
PlanCities ==
    {[id |-> "phoenix", averageTemp |-> 96],
     [id |-> "miami", averageTemp |-> 84],
     [id |-> "las_vegas", averageTemp |-> 80],
     [id |-> "houston", averageTemp |-> 79],
     [id |-> "other", averageTemp |-> 75]}

\* getRealTimeClimateData leaves airQuality.aqi at 0
\* (realTimeDataService.ts line 221)
PlanWeathers ==
    {[null |-> FALSE, temperature |-> 75, humidity |-> 30, aqi |-> 0],
     [null |-> FALSE, temperature |-> 96, humidity |-> 85, aqi |-> 0],
     [null |-> FALSE, temperature |-> 101, humidity |-> 30, aqi |-> 0]}
PlanEnvs == [null : {FALSE}, carbonEmissions : {0, 9000}]

\* surfaceAlbedo as generateHeatZones derives it from the land use
\* (heatIslandAnalysis.ts lines 345-346)
SurfaceAlbedo(landUse) ==
    IF landUse = "industrial" THEN 15
    ELSE IF landUse = "commercial" THEN 25 ELSE 35

Severities == {"critical", "high", "moderate", "low"}
PlanSeverities == {"critical", "high", "low"}
LandUses == {"commercial", "industrial", "residential", "mixed"}
\* the land uses the rule lists tell apart: "mixed" takes the same branches
\* as "residential" (the default list of getFallbackActions, albedo 0.35)
PlanLandUses == LandUses \ {"mixed"}

PlanZones ==
    {[severity |-> sv, landUseType |-> lu, vegetationIndex |-> vi,
      buildingDensity |-> bd, surfaceAlbedo |-> SurfaceAlbedo(lu)] :
        sv \in PlanSeverities, lu \in PlanLandUses, vi \in {10, 30}, bd \in {80}}

(***************************************************************************)
(* generatePlans, lines 194-258                                            *)
(***************************************************************************)
\* lines 195-208: both fetches are awaited together; when either rejects
\* neither variable is assigned
GeneratePlansStart ==
    /\ gpState = "idle"
    /\ \E city \in PlanCities :
       \E we \in {<<Null, Null>>} \cup (PlanWeathers \X PlanEnvs) :
          /\ gpCity' = city
          /\ gpWeather' = we[1]
          /\ gpEnv' = we[2]
    /\ gpState' = "running"
    /\ gpUsed' = {}
    /\ gpPlans' = <<>>
    /\ gpZoneNo' = 0
    /\ gpLast' = Null
    /\ UNCHANGED <<gpTrained, notPlans>>

\* one iteration of the loop of line 210 that runs to its end
GeneratePlansZone ==
    /\ gpState = "running"
    /\ gpZoneNo < MaxZones
    /\ \E zone \in PlanZones :
       \E all \in predictOptimalActions(gpTrained, zone, gpCity, gpWeather, gpEnv) :
          LET chosen == SelectedActions(all, gpUsed, zone, gpCity, gpWeather, gpEnv)
              n == Min(NumActions(zone), Len(chosen))
          IN  /\ gpPlans' = gpPlans \o
                    [i \in 1..n |-> [type |-> chosen[i], zone |-> gpZoneNo + 1]]
              /\ gpUsed' = gpUsed \cup {chosen[i] : i \in 1..n}
              /\ gpLast' = [null |-> FALSE,
                            quota |-> NumActions(zone),
                            unused |-> Cardinality(ActionTypeSet \ gpUsed),
                            emitted |-> n]
    /\ gpZoneNo' = gpZoneNo + 1
    /\ UNCHANGED <<gpState, gpTrained, gpCity, gpWeather, gpEnv, notPlans>>

\* predictOptimalActions throws at line 218: nothing catches it
GeneratePlansThrow ==
    /\ gpState = "running"
    /\ gpZoneNo < MaxZones
    /\ \E zone \in PlanZones :
          predictOptimalActions(gpTrained, zone, gpCity, gpWeather, gpEnv) = {}
    /\ gpState' = "rejected"
    /\ UNCHANGED <<gpTrained, gpCity, gpWeather, gpEnv, gpUsed, gpPlans,
                   gpZoneNo, gpLast, notPlans>>

\* line 257, after the last zone
GeneratePlansReturn ==
    /\ gpState = "running"
    /\ gpState' = "resolved"
    /\ UNCHANGED <<gpTrained, gpCity, gpWeather, gpEnv, gpUsed, gpPlans,
                   gpZoneNo, gpLast, notPlans>>

PlanCityNone == [id |-> "other", averageTemp |-> 75]

IdlePlans ==
    /\ gpState = "idle"
    /\ gpCity = PlanCityNone
    /\ gpWeather = Null
    /\ gpEnv = Null
    /\ gpUsed = {}
    /\ gpPlans = <<>>
    /\ gpZoneNo = 0
    /\ gpLast = Null

InitPlans ==
    /\ IdlePlans
    /\ gpTrained \in BOOLEAN
    /\ IdleZones
    /\ gzTrained = FALSE
    /\ IdleEnv
    /\ IdleSession
    /\ strictDev = FALSE
    /\ IdleCalc
    /\ IdleFetch
    /\ fxSilent = {}

NextPlans ==
    \/ GeneratePlansStart
    \/ GeneratePlansZone
    \/ GeneratePlansThrow
    \/ GeneratePlansReturn

SpecPlans == InitPlans /\ [][NextPlans]_vars

(***************************************************************************)
(* heatIslandAnalysis.ts                                                   *)
(*                                                                         *)
(* Units: buildingDensity, vegIndex, vegetationCoverage, averageTemp and   *)
(* populationDensity are in thousandths; normalised inputs, the            *)
(* prediction, temperatureIncrease and riskScore are in millionths.        *)
(* Integer division rounds down; the error is below one unit of the scale. *)
(***************************************************************************)
\* the cities of App.tsx lines 276-343, and a city with no built-in id
ZoneCities ==
    {[id |-> "phoenix", population |-> 1680992, averageTemp |-> 89200,
      vegetationCoverage |-> 12300, elevation |-> 331, coastalDistance |-> 483],
     [id |-> "las_vegas", population |-> 651319, averageTemp |-> 85700,
      vegetationCoverage |-> 8100, elevation |-> 610, coastalDistance |-> 435],
     [id |-> "miami", population |-> 467963, averageTemp |-> 83400,
      vegetationCoverage |-> 31200, elevation |-> 2, coastalDistance |-> 0],
     [id |-> "atlanta", population |-> 498715, averageTemp |-> 78900,
      vegetationCoverage |-> 47900, elevation |-> 320, coastalDistance |-> 402],
     [id |-> "houston", population |-> 2304580, averageTemp |-> 81200,
      vegetationCoverage |-> 25600, elevation |-> 13, coastalDistance |-> 80],
     [id |-> "dallas", population |-> 1343573, averageTemp |-> 79800,
      vegetationCoverage |-> 22400, elevation |-> 131, coastalDistance |-> 523],
     [id |-> "synthetic", population |-> 1000000, averageTemp |-> 95000,
      vegetationCoverage |-> 10000, elevation |-> 100, coastalDistance |-> 50]}

Config(name, landUse, buildingDensity, vegIndex) ==
    [name |-> name, landUse |-> landUse,
     buildingDensity |-> buildingDensity, vegIndex |-> vegIndex]

BuiltInCityIds ==
    {"phoenix", "las_vegas", "miami", "atlanta", "houston", "dallas"}

\* lines 400-449, in thousandths
citySpecificConfigs(cityId) ==
    CASE cityId = "phoenix" ->
           <<Config("Downtown Phoenix", "commercial", 90000, 8000),
             Config("Industrial Corridor", "industrial", 75000, 5000),
             Config("Residential Sprawl", "residential", 45000, 12000),
             Config("Airport District", "industrial", 60000, 3000),
             Config("Shopping Centers", "commercial", 80000, 10000),
             Config("Suburban Development", "residential", 35000, 15000)>>
      [] cityId = "las_vegas" ->
           <<Config("The Strip", "commercial", 95000, 6000),
             Config("Downtown LV", "commercial", 85000, 8000),
             Config("Industrial Zone", "industrial", 70000, 4000),
             Config("Residential Areas", "residential", 50000, 10000),
             Config("Casino District", "commercial", 90000, 5000),
             Config("Suburban Sprawl", "residential", 40000, 12000)>>
      [] cityId = "miami" ->
           <<Config("Downtown Miami", "commercial", 88000, 20000),
             Config("Port Area", "industrial", 65000, 15000),
             Config("Beachfront Hotels", "commercial", 82000, 25000),
             Config("Residential Districts", "residential", 55000, 35000),
             Config("Airport Vicinity", "industrial", 60000, 18000),
             Config("Suburban Areas", "residential", 45000, 40000)>>
      [] cityId = "atlanta" ->
           <<Config("Downtown Atlanta", "commercial", 85000, 25000),
             Config("Industrial Belt", "industrial", 70000, 20000),
             Config("Residential Areas", "residential", 60000, 35000),
             Config("Airport District", "industrial", 65000, 18000),
             Config("Shopping Centers", "commercial", 75000, 22000),
             Config("Suburban Development", "residential", 50000, 45000)>>
      [] cityId = "houston" ->
           <<Config("Downtown Houston", "commercial", 88000, 18000),
             Config("Port of Houston", "industrial", 75000, 12000),
             Config("Medical Center", "commercial", 80000, 20000),
             Config("Residential Areas", "residential", 65000, 30000),
             Config("Energy Corridor", "industrial", 70000, 15000),
             Config("Suburban Sprawl", "residential", 55000, 35000)>>
      [] cityId = "dallas" ->
           <<Config("Downtown Dallas", "commercial", 87000, 20000),
             Config("Industrial District", "industrial", 72000, 15000),
             Config("Residential Areas", "residential", 62000, 28000),
             Config("Airport Area", "industrial", 68000, 12000),
             Config("Shopping Centers", "commercial", 78000, 18000),
             Config("Suburban Development", "residential", 52000, 32000)>>

\* lines 454-493: the configurations of a city without a table entry
DynamicConfigs(city) ==
    LET population == city.population
        vegetationCoverage == city.vegetationCoverage
    IN  <<Config("Downtown Core", "commercial",
                 Min(85000 + population \div 100, 95000),
                 Max((vegetationCoverage * 3) \div 10, 8000)),
          Config("Industrial Zone", "industrial",
                 65000 + population \div 50,
                 Max((vegetationCoverage * 2) \div 10, 5000)),
          Config("Residential Areas", "residential",
                 50000 + (population * 3) \div 200,
                 Max((vegetationCoverage * 6) \div 10, 15000)),
          Config("Mixed Development", "mixed",
                 60000 + (population * 3) \div 200,
                 Max((vegetationCoverage * 4) \div 10, 12000)),
          Config("Commercial Strip", "commercial",
                 75000 + population \div 150,
                 Max((vegetationCoverage * 25) \div 100, 10000)),
          Config("Suburban Area", "residential",
                 40000 + population \div 150,
                 Max((vegetationCoverage * 7) \div 10, 20000))>>

\* lines 391-502
generateCitySpecificZones(city) ==
    LET configs == IF city.id \in BuiltInCityIds
                   THEN citySpecificConfigs(city.id)
                   ELSE DynamicConfigs(city)
        Adjust(config) ==
            [config EXCEPT
               !.buildingDensity =
                   Min(100000, Max(20000, config.buildingDensity
                       + (IF city.averageTemp > 85000 THEN 5000 ELSE 0))),
               !.vegIndex =
                   Min(100000, Max(3000, config.vegIndex
                       + (IF city.vegetationCoverage > 30000
                          THEN 5000 ELSE 0 - 3000)))]
    IN  [i \in 1..Len(configs) |-> Adjust(configs[i])]


\* a || b on an optional number parameter
OrDefault(a, b) == IF a = 0 THEN b ELSE a

\* lines 229-267; the result is temperatureIncrease in millionths of a degree.
\* f holds the eight arguments: buildingDensity, vegetationIndex and
\* populationDensity in thousandths, the others in whole units
fallbackPrediction(f) ==
    LET nBuildingDensity == f.buildingDensity * 10
        nVegetationIndex == f.vegetationIndex * 10
        nSurfaceAlbedo == f.surfaceAlbedo * 10000
        nElevation == Min(f.elevation * 1000, 1000000)
        nCoastalDistance == Min(f.coastalDistance * 2000, 1000000)
        nPopulationDensity == Min(f.populationDensity \div 10, 1000000)
        nCurrentTemp == (OrDefault(f.currentTemp, 75) * 25000) \div 3
        nHumidity == OrDefault(f.humidity, 60) * 10000
        prediction ==
            (35 * nBuildingDensity - 42 * nVegetationIndex
             - 28 * nSurfaceAlbedo - 15 * nElevation + 18 * nCoastalDistance
             + 22 * nPopulationDensity + 12 * nCurrentTemp - 8 * nHumidity)
            \div 100
    IN  Max(0, prediction * 15)

\* the outputs of the trained network that the model tells apart, in
\* millionths: below 0, inside the clamp, above 1
ModelOutputs == {0 - 200000, 480000, 1100000}

\* lines 179-227: the values the call can resolve to, in millionths
predictTemperatureIncrease(trained, f) ==
    IF ~trained
    THEN {fallbackPrediction(f)}
    ELSE {Max(0, Min(15000000, out * 15)) : out \in ModelOutputs}

\* calculateRiskScore with the temperature risk saturating at 5 degrees
\* instead of 10
calculateRiskScoreSteep(temperatureIncrease, populationDensity) ==
    LET tempRisk == Min(temperatureIncrease \div 5, 1000000)
        popRisk == Min(populationDensity \div 8, 1000000)
    IN  tempRisk * 70 + popRisk * 30

\* lines 269-273; temperatureIncrease in millionths, populationDensity in
\* thousandths, the result in millionths
calculateRiskScore(temperatureIncrease, populationDensity) ==
    LET tempRisk == Min(temperatureIncrease \div 10, 1000000)
        popRisk == Min(populationDensity \div 8, 1000000)
    IN  tempRisk * 70 + popRisk * 30

\* Math.round of a value held in millionths
RoundMicro(x) == (x + 500000) \div 1000000

\* lines 364-368, riskScore in millionths
SeverityOf(riskScore) ==
    IF riskScore > 75000000 THEN "critical"
    ELSE IF riskScore > 50000000 THEN "high"
    ELSE IF riskScore > 25000000 THEN "moderate" ELSE "low"

\* city.population / 1000 * (config.buildingDensity / 100), in thousandths
PopulationDensity(city, config) ==
    ((city.population \div 1000) * config.buildingDensity) \div 100
    + ((city.population % 1000) * config.buildingDensity) \div 100000

\* lines 345-359: the arguments of predictTemperatureIncrease
Features(city, climate, config) ==
    [buildingDensity |-> config.buildingDensity,
     vegetationIndex |-> config.vegIndex,
     surfaceAlbedo |-> SurfaceAlbedo(config.landUse),
     elevation |-> city.elevation,
     coastalDistance |-> city.coastalDistance,
     populationDensity |-> PopulationDensity(city, config),
     currentTemp |-> climate.temperature,
     humidity |-> climate.humidity]

\* lines 345-386: the zone pushed for one configuration
HeatZone(city, climate, config, tempIncrease) ==
    LET surfaceAlbedo == SurfaceAlbedo(config.landUse)
        populationDensity == PopulationDensity(city, config)
        riskScore == calculateRiskScore(tempIncrease, populationDensity)
    IN  [name |-> config.name,
         temperature |-> RoundMicro(climate.temperature * 1000000 + tempIncrease),
         severity |-> SeverityOf(riskScore),
         landUseType |-> config.landUse,
         vegetationIndex |-> config.vegIndex,
         buildingDensity |-> config.buildingDensity,
         surfaceAlbedo |-> surfaceAlbedo,
         temperatureIncrease |-> RoundMicro(tempIncrease),
         riskScore |-> RoundMicro(riskScore)]

RECURSIVE InsertByRisk(_, _)
InsertByRisk(z, sorted) ==
    IF sorted = <<>> THEN <<z>>
    ELSE IF Head(sorted).riskScore >= z.riskScore
         THEN <<Head(sorted)>> \o InsertByRisk(z, Tail(sorted))
         ELSE <<z>> \o sorted

\* mutation of SortByRisk: the zones stay in the order they were pushed
SortByRiskNot(zones) == zones

RECURSIVE SortByRisk(_)
\* line 388: Array.prototype.sort is stable
SortByRisk(zones) ==
    IF zones = <<>> THEN <<>>
    ELSE LET n == Len(zones)
         IN  InsertByRisk(zones[n], SortByRisk(SubSeq(zones, 1, n - 1)))

\* the snapshots a successful fetch delivers
LiveClimates ==
    {[null |-> FALSE, temperature |-> 95, humidity |-> 30],
     [null |-> FALSE, temperature |-> 105, humidity |-> 20]}

\* lines 287-301: the data used when either fetch fails
FallbackClimate == [null |-> FALSE, temperature |-> 75, humidity |-> 60]

\* lines 275-317
GenerateHeatZonesStart ==
    /\ gzState = "idle"
    /\ gzCity' \in ZoneCities
    /\ gzClimate' \in LiveClimates \cup {FallbackClimate}
    /\ gzZones' = <<>>
    /\ gzState' = "running"
    /\ UNCHANGED <<gzTrained, notZones>>

\* one iteration of the loop of line 322
GenerateHeatZonesZone ==
    LET configs == generateCitySpecificZones(gzCity)
    IN  /\ gzState = "running"
        /\ Len(gzZones) < Len(configs)
        /\ LET config == configs[Len(gzZones) + 1]
           IN  \E tempIncrease \in
                   predictTemperatureIncrease(gzTrained,
                       Features(gzCity, gzClimate, config)) :
                  gzZones' = Append(gzZones,
                                HeatZone(gzCity, gzClimate, config, tempIncrease))
        /\ UNCHANGED <<gzState, gzTrained, gzCity, gzClimate, notZones>>

\* line 388
GenerateHeatZonesReturn ==
    /\ gzState = "running"
    /\ Len(gzZones) = Len(generateCitySpecificZones(gzCity))
    /\ gzZones' = SortByRisk(gzZones)
    /\ gzState' = "resolved"
    /\ UNCHANGED <<gzTrained, gzCity, gzClimate, notZones>>

InitZones ==
    /\ IdleZones
    /\ gzTrained \in BOOLEAN
    /\ IdlePlans
    /\ gpTrained = FALSE
    /\ IdleEnv
    /\ IdleSession
    /\ strictDev = FALSE
    /\ IdleCalc
    /\ IdleFetch
    /\ fxSilent = {}

NextZones ==
    \/ GenerateHeatZonesStart
    \/ GenerateHeatZonesZone
    \/ GenerateHeatZonesReturn

SpecZones == InitZones /\ [][NextZones]_vars


(***************************************************************************)
(* realTimeDataService.ts: getRealTimeEnvironmentalData and the cache      *)
(*                                                                         *)
(* Time is in minutes.  vegetationIndex is in thousandths, the energy      *)
(* consumption in thousands of MWh.                                        *)
(***************************************************************************)
\* CACHE_DURATION, in minutes
CACHE_DURATION == 2

\* the external sources the fan-out of lines 706-731 asks
Sources ==
    {"weather", "airQuality", "satellite", "census", "emissions", "energy"}

\* the sets of sources that are down while one call is served: none, each
\* source alone, all of them
FailureSets == {{}} \cup {{src} : src \in Sources} \cup {Sources}

\* getCachedData with entries expiring a minute early
getCachedDataExpiresEarly(cache, key, now) ==
    IF ~cache[key].null /\ now - cache[key].timestamp < CACHE_DURATION - 1
    THEN cache[key].data
    ELSE Null

\* getCachedData returning an entry that is exactly CACHE_DURATION old
getCachedDataInclusive(cache, key, now) ==
    IF ~cache[key].null /\ now - cache[key].timestamp <= CACHE_DURATION
    THEN cache[key].data
    ELSE Null

\* lines 135-141
getCachedData(cache, key, now) ==
    IF ~cache[key].null /\ now - cache[key].timestamp < CACHE_DURATION
    THEN cache[key].data
    ELSE Null

\* lines 143-145
setCachedData(cache, key, data, now) ==
    [cache EXCEPT ![key] = [null |-> FALSE, data |-> data, timestamp |-> now]]

\* getRealTimeClimateData(...).catch(() => null), lines 707-710
ClimateData(failed, temperature) ==
    IF "weather" \in failed THEN Null
    ELSE [null |-> FALSE, temperature |-> temperature, humidity |-> 30,
          uvIndex |-> 5]

\* getNASAEnvironmentalData(...).catch(() => null), lines 715-718 and
\* 1060-1091
NasaData(failed) ==
    IF "satellite" \in failed THEN Null
    ELSE [null |-> FALSE, vegetationIndex |-> 600, surfaceTemperature |-> 35]

\* getRealTimeCarbonEmissions, lines 396-511: it catches its own failure and
\* answers with the estimate of the city (Phoenix)
CarbonEmissions(failed) == IF "emissions" \in failed THEN 8500000 ELSE 7000

\* getRealTimeEnergyConsumption, lines 526-615: it catches its own failure
\* and computes the consumption of the city (Phoenix) from the weather
EnergyConsumption(failed, climateData) ==
    LET temperature == IF climateData.null THEN 75 ELSE climateData.temperature
        temperatureFactor ==
            IF temperature > 90 THEN 140
            ELSE IF temperature > 85 THEN 125
            ELSE IF temperature > 80 THEN 115
            ELSE IF temperature > 75 THEN 105 ELSE 100
    IN  IF "energy" \in failed
        THEN (((15000 * temperatureFactor) \div 100) * 143) \div 100
        ELSE 12000

\* getRealVulnerablePopulations(...).catch(() => null), lines 727-730, and
\* vulnerableData?.total || 0, line 746
VulnerablePopulations(failed) == IF "census" \in failed THEN 0 ELSE 250000

\* mutation of HeatIndex: the humidity term is left out
HeatIndexDry(temp, humidity) ==
    IF temp >= 800
    THEN ((110 * temp - 10300 + 500) \div 1000) * 10
    ELSE temp

\* the arithmetic of lines 1157-1168 on a temperature in tenths of a degree
\* and a humidity in percent; the result is in tenths:
\* 0.5 * (temp + 61 + (temp - 68) * 1.2 + humidity * 0.094) is
\* 1.1 * temp - 10.3 + 0.047 * humidity, rounded by Math.round
HeatIndex(temp, humidity) ==
    IF temp >= 800
    THEN ((110 * temp - 10300 + 47 * humidity + 500) \div 1000) * 10
    ELSE temp

\* lines 1157-1168, for climate data that is not null and whole degrees
calculateUrbanHeatIndex(climateData) ==
    HeatIndex(climateData.temperature * 10, climateData.humidity) \div 10

\* lines 1170-1177, for climate data that is not null; in thousandths
calculateVegetationIndex(climateData) ==
    LET tempFactor == IF climateData.temperature < 85 THEN 10 ELSE 8
        humidityFactor == IF climateData.humidity > 60 THEN 11 ELSE 9
        uvFactor == IF climateData.uvIndex < 8 THEN 10 ELSE 9
    IN  Min(1000, Max(100, (600 * tempFactor * humidityFactor * uvFactor)
                           \div 1000))

\* lines 1179-1187, for climate data that is not null
calculateBuildingEfficiency(climateData) ==
    LET tempEfficiency ==
            IF climateData.temperature < 75 THEN 85
            ELSE IF climateData.temperature < 85 THEN 75 ELSE 65
        humidityEfficiency ==
            IF climateData.humidity < 60 THEN 90
            ELSE IF climateData.humidity < 80 THEN 80 ELSE 70
    IN  (tempEfficiency + humidityEfficiency + 1) \div 2

\* whether building the object of lines 732-749 throws: getRealPopulationDensity
\* rejects without the census (line 735, lines 1013-1048), and the
\* calculators of lines 736, 738 and 744 read fields of climateData
AggregationThrows(failed) ==
    \/ "census" \in failed
    \/ "satellite" \in failed /\ "weather" \in failed
    \/ "weather" \in failed

\* calculateDynamicAirPollution, lines 1248-1276, in thousandths; the
\* vegetation index is in thousandths too
calculateDynamicAirPollution(climateData, nasaData, carbonData) ==
    LET temperature == IF climateData.null THEN 0 ELSE climateData.temperature
        humidity == IF climateData.null THEN 0 ELSE climateData.humidity
        emissions == IF carbonData.null THEN 0 ELSE carbonData.emissions
        vegetationIndex == IF nasaData.null THEN 0 ELSE nasaData.vegetationIndex
        fromTemperature ==
            IF temperature # 0
            THEN Min(20000, (20000 * (temperature - 70)) \div 30) ELSE 0
        fromCarbon ==
            IF emissions # 0 THEN Min(15000, (15 * emissions) \div 10) ELSE 0
        fromVegetation ==
            IF vegetationIndex # 0 THEN (100000 - vegetationIndex) \div 10 ELSE 0
        fromHumidity == IF humidity # 0 THEN Min(5000, 50 * humidity) ELSE 0
    IN  Min(100000, Max(20000, 50000 + fromTemperature + fromCarbon
                                + fromVegetation + fromHumidity))

\* the object of lines 732-749 built from what the six promises of lines
\* 706-731 resolved to, when building it does not throw (climateData is
\* not null); airPollutionLevel is in thousandths
BuildEnvironmentalData(d) ==
    [null |-> FALSE,
     carbonEmissions |->
         IF d.carbonData.null THEN 0 ELSE OrElse(d.carbonData.emissions, 0),
     energyConsumption |->
         IF d.energyData.null THEN 0 ELSE OrElse(d.energyData.consumption, 0),
     populationDensity |-> 4000,
     vegetationIndex |->
         IF d.nasaData.null THEN calculateVegetationIndex(d.climateData)
         ELSE OrElse(d.nasaData.vegetationIndex,
                     calculateVegetationIndex(d.climateData)),
     surfaceTemperature |->
         IF d.nasaData.null THEN OrElse(d.climateData.temperature, 75)
         ELSE OrElse(d.nasaData.surfaceTemperature,
                     OrElse(d.climateData.temperature, 75)),
     urbanHeatIndex |-> calculateUrbanHeatIndex(d.climateData),
     airPollutionLevel |->
         LET calculated == calculateDynamicAirPollution(d.climateData, d.nasaData, d.carbonData)
         IN  IF d.airQualityData.null THEN calculated
             ELSE OrElse(d.airQualityData.aqi * 1000, calculated),
     buildingEnergyEfficiency |-> calculateBuildingEfficiency(d.climateData),
     vulnerablePopulations |->
         IF d.vulnerableData.null THEN 0 ELSE OrElse(d.vulnerableData.total, 0)]

\* getRealTimeAirQuality(...).catch(() => null), lines 711-714
AirQualityData(failed) ==
    IF "airQuality" \in failed THEN Null ELSE [null |-> FALSE, aqi |-> 42]

\* what the six promises resolve to while the sources of the set failed
\* are down
PromiseResults(failed, temperature) ==
    LET climateData == ClimateData(failed, temperature)
    IN  [climateData |-> climateData,
         airQualityData |-> AirQualityData(failed),
         nasaData |-> NasaData(failed),
         carbonData |-> [null |-> FALSE, emissions |-> CarbonEmissions(failed)],
         energyData |-> [null |-> FALSE, consumption |-> EnergyConsumption(failed, climateData)],
         vulnerableData |->
             IF "census" \in failed THEN Null
             ELSE [null |-> FALSE, total |-> VulnerablePopulations(failed)]]

\* the object of lines 732-749, when building it does not throw
EnvironmentalData(failed, temperature) ==
    BuildEnvironmentalData(PromiseResults(failed, temperature))

\* the temperatures the weather source reports while the sources of the
\* set failed are down
EnvTemperatures(failed) == IF failed = {} THEN {75, 95} ELSE {95}

\* the calls that had fetched and stored a snapshot for the place when a new
\* call is issued
StoredFor(place) ==
    {i \in 1..Len(envCalls) :
        /\ envCalls[i].place = place
        /\ envCalls[i].state = "resolved"
        /\ envCalls[i].fetched}

\* lines 699-702 and the fan-out of lines 706-731, which starts before the
\* first await: a call is issued and either answered from the cache or left
\* waiting for its sources
EnvCall ==
    /\ Len(envCalls) < MaxCalls
    /\ \E place \in Places :
          LET cached == getCachedData(envCache, place, envNow)
          IN  envCalls' = Append(envCalls,
                  [place |-> place,
                   issuedAt |-> envNow,
                   after |-> StoredFor(place),
                   fetched |-> cached.null,
                   state |-> IF cached.null THEN "pending" ELSE "resolved",
                   failed |-> {},
                   doneAt |-> envNow,
                   result |-> cached])
    /\ UNCHANGED <<envNow, envCache, notEnv>>

\* lines 731-759: the sources have answered or failed
EnvSettle ==
    /\ \E i \in 1..Len(envCalls) :
       \E failed \in FailureSets :
       \E temperature \in EnvTemperatures(failed) :
          /\ envCalls[i].state = "pending"
          /\ IF AggregationThrows(failed)
             THEN /\ envCalls' = [envCalls EXCEPT
                                     ![i].state = "rejected",
                                     ![i].failed = failed,
                                     ![i].doneAt = envNow]
                  /\ UNCHANGED envCache
             ELSE LET data == EnvironmentalData(failed, temperature)
                  IN  /\ envCalls' = [envCalls EXCEPT
                                         ![i].state = "resolved",
                                         ![i].failed = failed,
                                         ![i].doneAt = envNow,
                                         ![i].result = data]
                      /\ envCache' = setCachedData(envCache, envCalls[i].place,
                                                   data, envNow)
    /\ UNCHANGED <<envNow, notEnv>>

\* a minute passes
EnvTick ==
    /\ envNow < MaxTime
    /\ envNow' = envNow + 1
    /\ UNCHANGED <<envCache, envCalls, notEnv>>

InitEnv ==
    /\ IdleEnv
    /\ IdlePlans
    /\ gpTrained = FALSE
    /\ IdleZones
    /\ gzTrained = FALSE
    /\ IdleSession
    /\ strictDev = FALSE
    /\ IdleCalc
    /\ IdleFetch
    /\ fxSilent = {}

NextEnv ==
    \/ EnvCall
    \/ EnvSettle
    \/ EnvTick

SpecEnv == InitEnv /\ [][NextEnv]_vars


(***************************************************************************)
(* The session of App.tsx: the effect of lines 31-77 runs initializeModels *)
(* once, or twice on the same three predictors where the build             *)
(* double-invokes effects (main.tsx renders the page in StrictMode).  Each *)
(* invocation runs from one await to the next; the continuations ready to  *)
(* run are queued in microQ, and timers, the completion of a fit and the   *)
(* user's clicks happen only when that queue is empty.                     *)
(***************************************************************************)
InitPc == [heat |-> "init_heat", plan |-> "init_plan", climate |-> "init_climate"]
FitPc == [heat |-> "fit_heat", plan |-> "fit_plan", climate |-> "fit_climate"]
AfterPc == [heat |-> "after_heat", plan |-> "after_plan", climate |-> "after_climate"]

\* an invocation that has neither finished nor failed
InProgress(r) == runPc[r] \notin {"idle", "done", "failed"}

\* mutation of FitRefused: fit() starts whatever the model is doing
FitRefusedNever(m) == FALSE

\* model.fit throws when a fit of the same model is ongoing
FitRefused(m) == fitOngoing[m]

\* initialize(): the predictor gets a freshly built model
initialize(m) == [fitOngoing EXCEPT ![m] = FALSE]

\* the catch of initializeModels (lines 70-73)
RunCatch(r, rest) ==
    /\ runPc' = [runPc EXCEPT ![r] = "failed"]
    /\ microQ' = rest
    /\ isModelTraining' = FALSE

\* invocation r calls trainModel of predictor m and runs up to its await
trainModel(m, r, rest) ==
    /\ calledAfterFail' = [calledAfterFail EXCEPT ![m] = @ \/ trainFailed[m]]
    /\ IF m = "climate" /\ (isTrained[m] \/ climateIsTraining)
       THEN /\ runPc' = [runPc EXCEPT ![r] = AfterPc[m]]
            /\ microQ' = Append(rest, r)
            /\ UNCHANGED <<isTrained, fitOngoing, climateIsTraining, fits,
                           trainFailed, isModelTraining>>
       ELSE IF FitRefused(m)
       THEN /\ isTrained' = [isTrained EXCEPT ![m] = FALSE]
            /\ trainFailed' = [trainFailed EXCEPT ![m] = TRUE]
            /\ climateIsTraining' = IF m = "climate" THEN FALSE
                                    ELSE climateIsTraining
            /\ RunCatch(r, rest)
            /\ UNCHANGED <<fitOngoing, fits>>
       ELSE /\ fits' = [fits EXCEPT ![m] = @ + 1]
            /\ fitOngoing' = [fitOngoing EXCEPT ![m] = TRUE]
            /\ climateIsTraining' = IF m = "climate" THEN TRUE
                                    ELSE climateIsTraining
            /\ runPc' = [runPc EXCEPT ![r] = FitPc[m]]
            /\ microQ' = rest
            /\ UNCHANGED <<isTrained, trainFailed, isModelTraining>>

\* the effect runs: each invocation arms its timer and runs up to
\* `await predictor.initialize()`
Mount ==
    /\ ~mounted
    /\ mounted' = TRUE
    /\ LET started == IF strictDev THEN {1, 2} ELSE {1}
       IN /\ timer' = [r \in Runs |-> IF r \in started THEN "armed" ELSE "unset"]
          /\ runPc' = [r \in Runs |-> IF r \in started THEN InitPc["heat"]
                                      ELSE "idle"]
          /\ microQ' = IF strictDev THEN <<1, 2>> ELSE <<1>>
    /\ fitOngoing' = initialize("heat")
    /\ UNCHANGED <<strictDev, isModelTraining, isTrained, climateIsTraining,
                   fits, transitions, trainFailed, trainedAfterFail,
                   calledAfterFail, earlyTimeout, trainedAfterTimeout,
                   analyzeVars, notSession>>

\* the invocation at the head of the queue continues to its next await
RunStep ==
    /\ microQ # <<>>
    /\ LET r == Head(microQ)
           rest == Tail(microQ)
       IN CASE runPc[r] = "init_heat" ->
                 /\ fitOngoing' = initialize("plan")
                 /\ runPc' = [runPc EXCEPT ![r] = InitPc["plan"]]
                 /\ microQ' = Append(rest, r)
                 /\ UNCHANGED <<timer, isModelTraining, isTrained,
                                climateIsTraining, fits, trainFailed,
                                calledAfterFail>>
            [] runPc[r] = "init_plan" ->
                 /\ fitOngoing' = initialize("climate")
                 /\ runPc' = [runPc EXCEPT ![r] = InitPc["climate"]]
                 /\ microQ' = Append(rest, r)
                 /\ UNCHANGED <<timer, isModelTraining, isTrained,
                                climateIsTraining, fits, trainFailed,
                                calledAfterFail>>
            [] runPc[r] = "init_climate" ->
                 trainModel("heat", r, rest) /\ UNCHANGED timer
            [] runPc[r] = "after_heat" ->
                 trainModel("plan", r, rest) /\ UNCHANGED timer
            [] runPc[r] = "after_plan" ->
                 trainModel("climate", r, rest) /\ UNCHANGED timer
            [] runPc[r] = "after_climate" ->
                 /\ timer' = [timer EXCEPT ![r] = IF @ = "armed" THEN "cleared"
                                                  ELSE @]
                 /\ isModelTraining' = FALSE
                 /\ runPc' = [runPc EXCEPT ![r] = "done"]
                 /\ microQ' = rest
                 /\ UNCHANGED <<isTrained, fitOngoing, climateIsTraining,
                                fits, trainFailed, calledAfterFail>>
    /\ UNCHANGED <<strictDev, mounted, transitions, trainedAfterFail,
                   earlyTimeout, trainedAfterTimeout, analyzeVars, notSession>>

\* the fit of predictor m started by invocation r completes
FitDone ==
    /\ microQ = <<>>
    /\ \E r \in Runs, m \in ModelSet :
        /\ runPc[r] = FitPc[m]
        /\ isTrained' = [isTrained EXCEPT ![m] = TRUE]
        /\ transitions' = [transitions EXCEPT
                             ![m] = IF isTrained[m] THEN @ ELSE @ + 1]
        /\ fitOngoing' = [fitOngoing EXCEPT ![m] = FALSE]
        /\ climateIsTraining' = IF m = "climate" THEN FALSE
                                ELSE climateIsTraining
        /\ trainedAfterFail' = [trainedAfterFail EXCEPT
                                  ![m] = @ \/ trainFailed[m]]
        /\ trainedAfterTimeout' = [trainedAfterTimeout EXCEPT
                                     ![m] = @ \/ earlyTimeout]
        /\ runPc' = [runPc EXCEPT ![r] = AfterPc[m]]
        /\ microQ' = <<r>>
    /\ UNCHANGED <<strictDev, mounted, timer, isModelTraining, fits,
                   trainFailed, calledAfterFail, earlyTimeout, analyzeVars,
                   notSession>>

\* the fit of predictor m started by invocation r fails
FitFail ==
    /\ microQ = <<>>
    /\ \E r \in Runs, m \in ModelSet :
        /\ runPc[r] = FitPc[m]
        /\ isTrained' = [isTrained EXCEPT ![m] = FALSE]
        /\ trainFailed' = [trainFailed EXCEPT ![m] = TRUE]
        /\ fitOngoing' = [fitOngoing EXCEPT ![m] = FALSE]
        /\ climateIsTraining' = IF m = "climate" THEN FALSE
                                ELSE climateIsTraining
        /\ RunCatch(r, microQ)
    /\ UNCHANGED <<strictDev, mounted, timer, fits, transitions,
                   trainedAfterFail, calledAfterFail, earlyTimeout,
                   trainedAfterTimeout, analyzeVars, notSession>>

\* the 30 s timer of an invocation fires (lines 35-38)
TimerFire ==
    /\ microQ = <<>>
    /\ \E r \in Runs :
        /\ timer[r] = "armed"
        /\ timer' = [timer EXCEPT ![r] = "fired"]
    /\ isModelTraining' = FALSE
    /\ earlyTimeout' = (earlyTimeout \/ \E q \in Runs : InProgress(q))
    /\ UNCHANGED <<strictDev, mounted, runPc, microQ, isTrained, fitOngoing,
                   climateIsTraining, fits, transitions, trainFailed,
                   trainedAfterFail, calledAfterFail, trainedAfterTimeout,
                   analyzeVars, notSession>>

\* the cities the user picks from (two of those of lines 276-343)
SessionCities == {"phoenix", "miami"}

\* what handleCitySelect resets (lines 81-84)
ClearedBySelect ==
    {"heatZones", "selectedZone", "environmentalData", "actionPlans"}

\* handleCitySelect (lines 79-85); the page shows only the loading screen
\* while isModelTraining (line 129); the city buttons are never disabled
\* (CitySelector, components/EnvironmentalData.tsx lines 431-434)
SelectCity ==
    /\ microQ = <<>>
    /\ mounted
    /\ ~isModelTraining
    /\ \E city \in SessionCities : selectedCity' = city
    /\ shown' = [f \in Results |->
                    IF f \in ClearedBySelect THEN "none" ELSE shown[f]]
    /\ UNCHANGED <<trainVars, anStage, anStatus, anTrainedAfterTimeout,
                   anCity, anPaths, anHeatAtStart, notSession>>

\* onZoneSelect = setSelectedZone (line 228): the user picks one of the
\* zones on the map
ZoneSelect ==
    /\ microQ = <<>>
    /\ mounted
    /\ ~isModelTraining
    /\ shown["heatZones"] # "none"
    /\ shown["selectedZone"] # shown["heatZones"]
    /\ shown' = [shown EXCEPT !["selectedZone"] = shown["heatZones"]]
    /\ UNCHANGED <<trainVars, selectedCity, anStage, anStatus,
                   anTrainedAfterTimeout, anCity, anPaths, anHeatAtStart,
                   notSession>>

\* handleAnalyze up to its first await (lines 87-93); the button is
\* disabled while an analysis runs.  generateHeatZones is called with the
\* selectedCity of this render and waits for its two fetches
AnalyzeStart ==
    /\ microQ = <<>>
    /\ selectedCity # "none"
    /\ ~isModelTraining
    /\ anStage = "idle"
    /\ anStage' = "zones"
    /\ anStatus' = [st \in Stages |-> "none"]
    /\ anCity' = selectedCity
    /\ anPaths' = <<>>
    /\ anHeatAtStart' = isTrained["heat"]
    /\ UNCHANGED <<trainVars, selectedCity, anTrainedAfterTimeout, shown,
                   notSession>>

\* a stage of handleAnalyze resolves and the next one is called
StageResolves(st, next, usesTrained) ==
    /\ anStatus' = [anStatus EXCEPT ![st] = "resolved"]
    /\ anStage' = next
    /\ anTrainedAfterTimeout' =
           (anTrainedAfterTimeout \/ (earlyTimeout /\ usesTrained))

\* the number of zones of a city in the session
ZonesPerRun == 2

\* mutation of FallbackYieldsToTasks: the untrained prediction waits for a
\* task as the trained one does
FallbackYieldsToTasksAlways == TRUE

\* heatIslandAnalysis.ts lines 188-192: the untrained branch of
\* predictTemperatureIncrease returns fallbackPrediction's value without
\* waiting for anything, so the await of line 350 continues in the same
\* run of microtasks, before any timer, click or fit completion
FallbackYieldsToTasks == FALSE

\* the loop of generateHeatZones (lines 322-386) from its next iteration up
\* to the next await that waits for a task: each iteration reads isTrained
\* (line 188); the trained branch waits for the weather request and the
\* network's output (lines 197-216)
ZoneLoop(paths) ==
    IF Len(paths) = ZonesPerRun
    THEN /\ anPaths' = paths
         /\ StageResolves("zones", "plans", FALSE)
    ELSE IF isTrained["heat"] \/ FallbackYieldsToTasks
    THEN /\ anPaths' = Append(paths, isTrained["heat"])
         /\ anStage' = "zone_predict"
         /\ anTrainedAfterTimeout' =
                (anTrainedAfterTimeout \/ (earlyTimeout /\ isTrained["heat"]))
         /\ UNCHANGED anStatus
    ELSE /\ anPaths' = paths \o [i \in 1..(ZonesPerRun - Len(paths)) |-> FALSE]
         /\ StageResolves("zones", "plans", FALSE)

\* the fetches of generateHeatZones settle (lines 280-317) and the loop
\* starts
AnalyzeZones ==
    /\ microQ = <<>>
    /\ anStage = "zones"
    /\ ZoneLoop(<<>>)
    /\ UNCHANGED <<trainVars, selectedCity, anCity, anHeatAtStart, shown,
                   notSession>>

\* a prediction the loop waited for resolves and the loop goes on; after
\* the last zone generateHeatZones returns (line 93)
AnalyzeZoneStep ==
    /\ microQ = <<>>
    /\ anStage = "zone_predict"
    /\ ZoneLoop(anPaths)
    /\ UNCHANGED <<trainVars, selectedCity, anCity, anHeatAtStart, shown,
                   notSession>>

\* planGenerator.generatePlans settles (line 94): with a trained model
\* predictOptimalActions throws and handleAnalyze ends in its catch
AnalyzePlans ==
    /\ microQ = <<>>
    /\ anStage = "plans"
    /\ IF isTrained["plan"] /\ PredictThrows
       THEN /\ anStatus' = [anStatus EXCEPT !["plans"] = "rejected"]
            /\ anStage' = "idle"
            /\ anTrainedAfterTimeout' = (anTrainedAfterTimeout \/ earlyTimeout)
       ELSE StageResolves("plans", "impact", isTrained["plan"])
    /\ UNCHANGED <<trainVars, selectedCity, anCity, anPaths, anHeatAtStart,
                   shown, notSession>>

\* climateAnalyzer.analyzeClimateImpact settles (line 95)
AnalyzeImpact ==
    /\ microQ = <<>>
    /\ anStage = "impact"
    /\ StageResolves("impact", "future", isTrained["climate"])
    /\ UNCHANGED <<trainVars, selectedCity, anCity, anPaths, anHeatAtStart,
                   shown, notSession>>

\* what handleAnalyze stores (lines 117-121)
StoredByAnalyze ==
    {"heatZones", "actionPlans", "environmentalData", "climateImpact",
     "futurePredictions"}

\* climateAnalyzer.predictFutureClimate settles (line 96) and the results,
\* all computed for the city handleAnalyze captured, are stored
AnalyzeFuture ==
    /\ microQ = <<>>
    /\ anStage = "future"
    /\ StageResolves("future", "idle", FALSE)
    /\ shown' = [f \in Results |->
                    IF f \in StoredByAnalyze THEN anCity ELSE shown[f]]
    /\ UNCHANGED <<trainVars, selectedCity, anCity, anPaths, anHeatAtStart,
                   notSession>>

InitSession ==
    /\ IdleSession
    /\ strictDev \in BOOLEAN
    /\ IdlePlans
    /\ gpTrained = FALSE
    /\ IdleZones
    /\ gzTrained = FALSE
    /\ IdleEnv
    /\ IdleCalc
    /\ IdleFetch
    /\ fxSilent = {}

NextSession ==
    \/ Mount
    \/ RunStep
    \/ FitDone
    \/ FitFail
    \/ TimerFire
    \/ SelectCity
    \/ ZoneSelect
    \/ AnalyzeStart
    \/ AnalyzeZones
    \/ AnalyzeZoneStep
    \/ AnalyzePlans
    \/ AnalyzeImpact
    \/ AnalyzeFuture

SpecSession == InitSession /\ [][NextSession]_vars

(***************************************************************************)
(* The requests of one getRealTimeEnvironmentalData call for Phoenix on an *)
(* empty cache.  Every request goes through makeAPICall (lines 148-170),   *)
(* which awaits fetch() with no timeout: a request is answered, fails, or  *)
(* stays open for ever when its source never answers.  fxPc names the      *)
(* request each part of the call is waiting for.                           *)
(***************************************************************************)
FetchSources == {"weather", "epa", "census"}

\* the source a part waits for: open-meteo.com serves the weather, the
\* satellite stand-in, the noise and the green-space readings
SourceOf(pc) ==
    CASE pc \in {"weather", "weather2", "noise", "green"} -> "weather"
      [] pc = "epa" -> "epa"
      [] pc \in {"census", "census1", "census2", "census3"} -> "census"
      [] OTHER -> "none"

\* the requests made by getRealTimeClimateData, which stores what it gets
ThroughClimateCache ==
    {<<"climate", "weather">>, <<"carbon", "weather">>,
     <<"energy", "weather">>, <<"energy", "weather2">>}

\* where a part goes when its request is answered ("ok"), answered without
\* data ("empty") or fails
NextPc(t, pc, outcome, cached, climateOk) ==
    CASE t \in {"climate", "airQuality", "nasa"} -> "done"
      [] t = "carbon" /\ pc = "epa" ->
            \* lines 432-457: without data the emissions are computed from
            \* the weather and the census
            IF outcome = "empty" THEN (IF cached THEN "census" ELSE "weather")
            ELSE "done"
      [] t = "carbon" /\ pc = "weather" -> "census"
      [] t = "carbon" /\ pc = "census" -> "done"
      [] t = "energy" /\ pc = "weather" ->
            \* lines 537 and 940-943, then the catch of lines 551-555
            IF outcome = "ok" \/ cached THEN "done" ELSE "weather2"
      [] t = "energy" /\ pc = "weather2" -> "done"
      [] t = "vulnerable" /\ pc = "census1" ->
            IF outcome = "ok" THEN "done" ELSE "census2"
      [] t = "vulnerable" /\ pc = "census2" ->
            IF outcome = "ok" THEN "done" ELSE "census3"
      [] t = "vulnerable" /\ pc = "census3" -> "done"
      [] t = "join" /\ pc = "census" ->
            \* line 735, then the calculators of lines 736-738
            IF outcome = "ok" /\ climateOk THEN "noise" ELSE "rejected"
      [] t = "join" /\ pc = "noise" -> "green"
      [] t = "join" /\ pc = "green" -> "resolved"

\* the answers a request can get
Outcomes(t, pc) ==
    IF SourceOf(pc) = "census" \/ (t = "carbon" /\ pc = "epa")
    THEN {"ok", "empty", "failed"}
    ELSE {"ok", "failed"}

\* lines 699-731 up to `await Promise.all`: the six promises start and each
\* issues its first request
FetchStart ==
    /\ fxPc["join"] = "idle"
    /\ fxPc' = [climate |-> "weather", airQuality |-> "epa", nasa |-> "weather",
                carbon |-> "epa", energy |-> "weather",
                vulnerable |-> "census1", join |-> "all"]
    /\ UNCHANGED <<fxSilent, fxClimateOk, fxCached, fxFailed, fxRetried, notFetch>>

\* a request is answered or fails, and the part that waited for it runs up
\* to its next request
FetchAnswer ==
    /\ \E t \in FetchTasks :
        /\ SourceOf(fxPc[t]) \in FetchSources \ fxSilent
        /\ \E outcome \in Outcomes(t, fxPc[t]) :
            LET source == SourceOf(fxPc[t])
                stored == outcome = "ok" /\ <<t, fxPc[t]>> \in ThroughClimateCache
                failed == IF outcome = "failed" THEN fxFailed \cup {source}
                          ELSE fxFailed
                next == NextPc(t, fxPc[t], outcome, fxCached, fxClimateOk)
            IN  /\ fxPc' = [fxPc EXCEPT ![t] = next]
                /\ fxCached' = (fxCached \/ stored)
                /\ fxClimateOk' = (fxClimateOk \/ (t = "climate" /\ outcome = "ok"))
                /\ fxFailed' = failed
                /\ fxRetried' = IF SourceOf(next) \in failed
                                THEN fxRetried \cup {SourceOf(next)}
                                ELSE fxRetried
    /\ UNCHANGED <<fxSilent, notFetch>>

\* Promise.all of line 731 resolves and line 735 asks the census
FetchJoin ==
    /\ fxPc["join"] = "all"
    /\ \A t \in FetchTasks \ {"join"} : fxPc[t] = "done"
    /\ fxPc' = [fxPc EXCEPT !["join"] = "census"]
    /\ fxRetried' = IF "census" \in fxFailed THEN fxRetried \cup {"census"}
                    ELSE fxRetried
    /\ UNCHANGED <<fxSilent, fxClimateOk, fxCached, fxFailed, notFetch>>

\* the sets of sources that may never answer
SilentSets == {{}} \cup {{src} : src \in FetchSources}

InitFetch ==
    /\ IdleFetch
    /\ fxSilent \in SilentSets
    /\ IdleCalc
    /\ IdlePlans
    /\ gpTrained = FALSE
    /\ IdleZones
    /\ gzTrained = FALSE
    /\ IdleEnv
    /\ IdleSession
    /\ strictDev = FALSE

NextFetch ==
    \/ FetchStart
    \/ FetchAnswer
    \/ FetchJoin

SpecFetch == InitFetch /\ [][NextFetch]_vars

\* every step that can be taken is taken in the end: requests that can be
\* answered are answered
SpecFetchFair == SpecFetch /\ WF_vars(NextFetch)

(***************************************************************************)
(* The calculators: each action applies one pure function of the source    *)
(* once to arguments drawn from a bounded set.                             *)
(***************************************************************************)
HeatTemps == MinHeatTemp .. MaxHeatTemp
Humidities == 0 .. MaxHumidity

\* calculateUrbanHeatIndex({temperature, humidity}), lines 1157-1168
ApplyHeatIndex ==
    /\ calcFn = "none"
    /\ \E temp \in HeatTemps, humidity \in Humidities :
        /\ calcFn' = "calculateUrbanHeatIndex"
        /\ calcIn' = [temperature |-> temp, humidity |-> humidity]
        /\ calcOut' = HeatIndex(temp, humidity)
    /\ UNCHANGED notCalc

\* ---- the object literal of getRealTimeEnvironmentalData ----

\* what the six promises may resolve to when the weather has answered
SnapshotInputs ==
    [climateData : {[null |-> FALSE, temperature |-> t, humidity |-> 30, uvIndex |-> 5] : t \in {75, 95}},
     airQualityData : {Null} \cup {[null |-> FALSE, aqi |-> q] : q \in {0, 42, 120}},
     nasaData : {Null, [null |-> FALSE, vegetationIndex |-> 600, surfaceTemperature |-> 35]},
     carbonData : {[null |-> FALSE, emissions |-> e] : e \in {0, 7000}},
     energyData : {[null |-> FALSE, consumption |-> c] : c \in {0, 12000}},
     vulnerableData : {Null} \cup {[null |-> FALSE, total |-> n] : n \in {0, 250000}}]

ApplyBuildEnvironmentalData ==
    /\ calcFn = "none"
    /\ \E d \in SnapshotInputs :
        /\ calcFn' = "getRealTimeEnvironmentalData"
        /\ calcIn' = d
        /\ calcOut' = BuildEnvironmentalData(d)
    /\ UNCHANGED notCalc

\* ---- calculateAQIComponent ----

\* the tables of lines 377-383; concentrations in thousandths
breakpoints ==
    [pm25 |-> <<<<0, 12000, 0, 50>>, <<12100, 35400, 51, 100>>,
                <<35500, 55400, 101, 150>>, <<55500, 150400, 151, 200>>,
                <<150500, 250400, 201, 300>>, <<250500, 500400, 301, 500>>>>,
     pm10 |-> <<<<0, 54000, 0, 50>>, <<55000, 154000, 51, 100>>,
                <<155000, 254000, 101, 150>>, <<255000, 354000, 151, 200>>,
                <<355000, 424000, 201, 300>>, <<425000, 604000, 301, 500>>>>,
     o3 |-> <<<<0, 54, 0, 50>>, <<55, 70, 51, 100>>, <<71, 85, 101, 150>>,
              <<86, 105, 151, 200>>, <<106, 200, 201, 300>>,
              <<201, 604, 301, 500>>>>,
     no2 |-> <<<<0, 53, 0, 50>>, <<54, 100, 51, 100>>, <<101, 360, 101, 150>>,
               <<361, 649, 151, 200>>, <<650, 1249, 201, 300>>,
               <<1250, 2049, 301, 500>>>>,
     co |-> <<<<0, 4400, 0, 50>>, <<4500, 9400, 51, 100>>,
              <<9500, 12400, 101, 150>>, <<12500, 15400, 151, 200>>,
              <<15500, 30400, 201, 300>>, <<30500, 50400, 301, 500>>>>]

Pollutants == {"pm25", "pm10", "o3", "no2", "co"}

\* mutation of InRow: the lower end of a row is excluded
InRowAboveLow(value, row) == value > row[1] /\ value <= row[2]

\* line 387: value >= low && value <= high
InRow(value, row) == value >= row[1] /\ value <= row[2]

\* line 388: Math.round(((aqiHigh - aqiLow) / (high - low)) * (value - low)
\* + aqiLow)
Interpolate(value, row) ==
    (2 * (row[4] - row[3]) * (value - row[1]) + (row[2] - row[1]))
        \div (2 * (row[2] - row[1])) + row[3]

\* the loop of lines 386-391 over the rows bp
RECURSIVE AQIScan(_, _)
AQIScan(value, bp) ==
    IF bp = <<>> THEN 0
    ELSE IF InRow(value, Head(bp)) THEN Interpolate(value, Head(bp))
    ELSE AQIScan(value, Tail(bp))

\* calculateAQIComponent, lines 375-393
calculateAQIComponent(value, pollutant) == AQIScan(value, breakpoints[pollutant])

\* the concentrations tried for a pollutant: the ends of every row, the
\* middle of every row, and the middle of every gap between two rows
Concentrations(pollutant) ==
    LET bp == breakpoints[pollutant]
    IN  UNION {{bp[i][1], bp[i][2], (bp[i][1] + bp[i][2]) \div 2} : i \in 1 .. Len(bp)}
        \cup {(bp[i][2] + bp[i + 1][1]) \div 2 : i \in 1 .. Len(bp) - 1}

ApplyAQIComponent ==
    /\ calcFn = "none"
    /\ \E pollutant \in Pollutants :
        \E value \in Concentrations(pollutant) :
            /\ calcFn' = "calculateAQIComponent"
            /\ calcIn' = [value |-> value, pollutant |-> pollutant]
            /\ calcOut' = calculateAQIComponent(value, pollutant)
    /\ UNCHANGED notCalc

\* ---- ClimateImpactAnalyzer ----

\* mutation of seaLevelRise: a city at distance 100 counts as coastal
seaLevelRiseInclusive(coastalDistance, yearsFromNow) ==
    IF coastalDistance <= 100 THEN (10 + 2 * yearsFromNow + 5) \div 10 ELSE 0

\* line 819, in tenths: Math.round((0.1 + yearsFromNow * 0.02) * 10) / 10
seaLevelRise(coastalDistance, yearsFromNow) ==
    IF coastalDistance < 100 THEN (10 + 2 * yearsFromNow + 5) \div 10 ELSE 0

\* mutation of PredictionLoop: the loop stops before currentYear + 50
PredictionLoopShort(year, currentYear, coastalDistance) ==
    [i \in 1 .. 9 |->
        [year |-> currentYear + 5 * i,
         seaLevelRise |-> seaLevelRise(coastalDistance, 5 * i)]]

\* the loop of lines 812-825 from `year` on: the predictions it pushes
RECURSIVE PredictionLoop(_, _, _)
PredictionLoop(year, currentYear, coastalDistance) ==
    IF year <= currentYear + 50
    THEN <<[year |-> year,
            seaLevelRise |-> seaLevelRise(coastalDistance, year - currentYear)]>>
         \o PredictionLoop(year + 5, currentYear, coastalDistance)
    ELSE <<>>

\* predictFutureClimate, lines 808-828
predictFutureClimate(currentYear, coastalDistance) ==
    PredictionLoop(currentYear + 5, currentYear, coastalDistance)

CurrentYears == {2025, 2026, 2030}
CoastalDistances == {0, 5, 50, 99, 100, 101, 483}

ApplyPredictFuture ==
    /\ calcFn = "none"
    /\ \E currentYear \in CurrentYears, coastalDistance \in CoastalDistances :
        /\ calcFn' = "predictFutureClimate"
        /\ calcIn' = [currentYear |-> currentYear,
                      coastalDistance |-> coastalDistance]
        /\ calcOut' = predictFutureClimate(currentYear, coastalDistance)
    /\ UNCHANGED notCalc

\* predictClimateImpact with a trained model, lines 340-365, in
\* thousandths: the output of the network clamped to [0, 1]
predictClimateImpact(modelOutput) == Max(0, Min(1000, modelOutput))

\* impactScore of fallbackClimateAnalysis, lines 406-408, in thousandths;
\* avgZoneTemp is in tenths of a degree
FallbackImpactScore(avgZoneTemp, criticalZones, zoneCount) ==
    (avgZoneTemp - 750) * 5 + (300 * criticalZones) \div zoneCount

\* mutation of adaptationUrgencyFallback: the thresholds are inclusive
adaptationUrgencyInclusive(impactScore) ==
    IF impactScore >= 700 THEN "critical"
    ELSE IF impactScore >= 500 THEN "high"
    ELSE IF impactScore >= 300 THEN "medium"
    ELSE "low"

\* line 320, the trained path
adaptationUrgencyTrained(impactScore) ==
    IF impactScore > 700 THEN "critical"
    ELSE IF impactScore > 500 THEN "high"
    ELSE IF impactScore > 300 THEN "medium"
    ELSE "low"

\* line 459, the untrained path
adaptationUrgencyFallback(impactScore) ==
    IF impactScore > 700 THEN "critical"
    ELSE IF impactScore > 500 THEN "high"
    ELSE IF impactScore > 300 THEN "medium"
    ELSE "low"

\* fallbackClimateAnalysis, lines 405-476: the fields the properties are
\* about, and the impactScore they were computed from
fallbackClimateAnalysis(a) ==
    LET impactScore ==
            FallbackImpactScore(a.avgZoneTemp, a.criticalZones, a.zoneCount)
    IN  [impactScore |-> impactScore,
         adaptationUrgency |-> adaptationUrgencyFallback(impactScore),
         futurePredictions |-> <<>>]

\* analyzeClimateImpact, lines 247-338
analyzeClimateImpact(a) ==
    IF ~a.trained
    THEN fallbackClimateAnalysis(a)
    ELSE LET impactScore == predictClimateImpact(a.modelOutput)
         IN  [impactScore |-> impactScore,
              adaptationUrgency |-> adaptationUrgencyTrained(impactScore),
              futurePredictions |->
                  predictFutureClimate(a.currentYear, a.coastalDistance)]

\* average zone temperatures, in tenths of a degree
AvgZoneTemps == {700, 750, 810, 811, 830, 850, 851, 870, 890, 891, 950}
\* <<criticalZones, zoneCount>>
ZoneCounts == {<<0, 1>>, <<1, 1>>, <<0, 6>>, <<1, 6>>, <<2, 6>>, <<2, 4>>, <<3, 5>>}
\* what the trained network may put out, in thousandths
ImpactOutputs == {0 - 200, 0, 300, 301, 500, 501, 700, 701, 1000, 1300}

ApplyAnalyzeImpact ==
    /\ calcFn = "none"
    /\ \E trained \in BOOLEAN, avgZoneTemp \in AvgZoneTemps, zc \in ZoneCounts, modelOutput \in ImpactOutputs, coastalDistance \in {5, 483} :
        LET a == [trained |-> trained, avgZoneTemp |-> avgZoneTemp,
                  criticalZones |-> zc[1], zoneCount |-> zc[2],
                  modelOutput |-> IF trained THEN modelOutput ELSE 0,
                  currentYear |-> 2026, coastalDistance |-> coastalDistance]
        IN  /\ calcFn' = "analyzeClimateImpact"
            /\ calcIn' = a
            /\ calcOut' = analyzeClimateImpact(a)
    /\ UNCHANGED notCalc

\* ---- the weather that reaches the heat predictor ----

\* lines 193-205 of heatIslandAnalysis.ts, the trained path: the arguments
\* with their defaults, overwritten by the reading of
\* getRealTimeClimateData(33.4484, -112.0740) unless that call rejects
\* (phoenixReading = Null)
TrainedWeather(currentTemp, humidity, phoenixReading) ==
    IF phoenixReading.null
    THEN [temperature |-> OrDefault(currentTemp, 75),
          humidity |-> OrDefault(humidity, 60)]
    ELSE [temperature |-> phoenixReading.temperature,
          humidity |-> phoenixReading.humidity]

\* lines 243-244, the untrained path: the arguments with their defaults
FallbackWeather(currentTemp, humidity) ==
    [temperature |-> OrDefault(currentTemp, 75),
     humidity |-> OrDefault(humidity, 60)]

\* lines 179-205: the temperature and humidity the prediction is made from
PredictionWeather(trained, f, phoenixReading) ==
    IF ~trained
    THEN FallbackWeather(f.currentTemp, f.humidity)
    ELSE TrainedWeather(f.currentTemp, f.humidity, phoenixReading)

\* the snapshots generateHeatZones may hold for a city: two live readings,
\* a live reading of 0 degrees, and the fallback of lines 287-301
CitySnapshots ==
    LiveClimates \cup {FallbackClimate}
    \cup {[null |-> FALSE, temperature |-> 0, humidity |-> 45]}

\* one call of predictTemperatureIncrease made by the loop of
\* generateHeatZones (lines 345-359) for the first zone of a city
ApplyPredictionWeather ==
    /\ calcFn = "none"
    /\ \E city \in ZoneCities, climate \in CitySnapshots, trained \in BOOLEAN, phoenixReading \in LiveClimates \cup {Null} :
        LET f == Features(city, climate, generateCitySpecificZones(city)[1])
        IN  /\ calcFn' = "predictTemperatureIncrease"
            /\ calcIn' = [city |-> city.id, climate |-> climate,
                          trained |-> trained,
                          phoenixReading |-> IF trained THEN phoenixReading ELSE Null]
            /\ calcOut' = PredictionWeather(trained, f, phoenixReading)
    /\ UNCHANGED notCalc

\* ---- healthRiskScore of a ClimateImpact, in thousandths ----

\* x ? f(x) : d on an optional field of a snapshot that may be null
FactorOr(realTimeData, present, value, default) ==
    IF ~realTimeData.null /\ present THEN value ELSE default

\* climateImpactAnalyzer.ts lines 296-308, the trained path; realTimeData is
\* Null when getRealTimeEnvironmentalData rejected (lines 254-267), its
\* airPollutionLevel is in thousandths
HealthRiskTrained(realTimeData, trafficDensity, greenSpaceCoverage) ==
    IF ~realTimeData.null /\ realTimeData.airPollutionLevel # 0
    THEN realTimeData.airPollutionLevel \div 100
    ELSE LET tempFactor ==
                 FactorOr(realTimeData, realTimeData.surfaceTemperature # 0,
                     Min(1000, ((realTimeData.surfaceTemperature - 70) * 1000) \div 30), 300)
             carbonFactor ==
                 FactorOr(realTimeData, realTimeData.carbonEmissions # 0,
                     Min(1000, realTimeData.carbonEmissions \div 10), 200)
             vegetationFactor ==
                 FactorOr(realTimeData, greenSpaceCoverage # 0,
                     (100 - greenSpaceCoverage) * 10, 400)
             trafficFactor ==
                 FactorOr(realTimeData, trafficDensity # 0,
                     trafficDensity * 10, 300)
         IN  Min(1000, (tempFactor * 30 + carbonFactor * 25
                        + vegetationFactor * 25 + trafficFactor * 20) \div 100)

\* lines 410-416, the untrained path; city.averageTemp and
\* city.vegetationCoverage are in thousandths
HealthRiskFallback(city) ==
    LET tempFactor == Min(1000, (city.averageTemp - 70000) \div 30)
        vegetationFactor == (100000 - city.vegetationCoverage) \div 100
        populationFactor == Min(1000, city.population \div 2000)
        coastalFactor == IF city.coastalDistance < 100 THEN 800 ELSE 1000
    IN  Min(1000, (tempFactor * 30 + vegetationFactor * 30
                   + populationFactor * 20 + coastalFactor * 20) \div 100)

\* realTimeDataService.ts lines 743-744: what trafficDensity and
\* greenSpaceCoverage may hold, the values of the catch handlers included
TrafficDensities == {5, 50, 100}
GreenSpaceCoverages == {25, 60}

\* healthRiskScore of analyzeClimateImpact(heatZones, city)
ApplyHealthRisk ==
    /\ calcFn = "none"
    /\ \E trained \in BOOLEAN, city \in ZoneCities, d \in SnapshotInputs, rejected \in BOOLEAN, trafficDensity \in TrafficDensities, greenSpaceCoverage \in GreenSpaceCoverages :
        LET realTimeData ==
                IF trained /\ ~rejected THEN BuildEnvironmentalData(d) ELSE Null
        IN  /\ calcFn' = "healthRiskScore"
            /\ calcIn' = [trained |-> trained, city |-> city.id,
                          realTimeData |-> realTimeData]
            /\ calcOut' =
                 [healthRiskScore |->
                     IF trained
                     THEN HealthRiskTrained(realTimeData, trafficDensity, greenSpaceCoverage)
                     ELSE HealthRiskFallback(city)]
    /\ UNCHANGED notCalc

\* ---- carbonFootprint and energyConsumption of a ClimateImpact ----

\* a decimal number as its whole part and its thousandths
Dec(whole, milli) == [whole |-> whole, milli |-> milli]

\* city.population * 0.012 and city.population * 0.015, perMille = 12 or 15
PerCapita(population, perMille) ==
    Dec((population * perMille) \div 1000, (population * perMille) % 1000)

\* climateImpactAnalyzer.ts lines 446-447: cityEmissions[city.name] || 5000000
cityEmissions(id) ==
    CASE id = "phoenix" -> 8500000
      [] id = "las_vegas" -> 7200000
      [] id = "miami" -> 6800000
      [] id = "atlanta" -> 7500000
      [] id = "houston" -> 9200000
      [] id = "dallas" -> 8100000
      [] OTHER -> 5000000

\* lines 418-431 and 448: cityEnergyData[city.name].baseConsumption, with
\* the default of line 431
baseConsumption(id) ==
    CASE id = "phoenix" -> 15000000
      [] id = "las_vegas" -> 12000000
      [] id = "miami" -> 18000000
      [] id = "atlanta" -> 14000000
      [] id = "houston" -> 22000000
      [] id = "dallas" -> 19000000
      [] OTHER -> 12000000

\* lines 292-293 (trained) and 446-448 (untrained)
carbonFootprint(trained, city, realTimeData) ==
    IF ~trained THEN Dec(cityEmissions(city.id), 0)
    ELSE IF ~realTimeData.null /\ realTimeData.carbonEmissions # 0
         THEN Dec(realTimeData.carbonEmissions, 0)
         ELSE PerCapita(city.population, 12)

energyConsumption(trained, city, realTimeData) ==
    IF ~trained THEN Dec(baseConsumption(city.id), 0)
    ELSE IF ~realTimeData.null /\ realTimeData.energyConsumption # 0
         THEN Dec(realTimeData.energyConsumption, 0)
         ELSE PerCapita(city.population, 15)

\* carbonFootprint and energyConsumption of analyzeClimateImpact(heatZones,
\* city); snapshot is what getRealTimeEnvironmentalData can supply for the
\* city, Null when it rejects.  The untrained path (line 250) does not ask.
ApplyFootprint ==
    /\ calcFn = "none"
    /\ \E trained \in BOOLEAN, city \in ZoneCities, d \in SnapshotInputs, rejected \in BOOLEAN :
        LET snapshot == IF rejected THEN Null ELSE BuildEnvironmentalData(d)
        IN  /\ calcFn' = "carbonFootprint"
            /\ calcIn' = [trained |-> trained, city |-> city.id,
                          population |-> city.population,
                          snapshot |-> snapshot]
            /\ calcOut' =
                 [carbonFootprint |-> carbonFootprint(trained, city, snapshot),
                  energyConsumption |-> energyConsumption(trained, city, snapshot)]
    /\ UNCHANGED notCalc

\* ---- the cache reads of the two services ----

\* ApiService.CACHE_DURATION, in minutes
API_CACHE_DURATION == 5

\* ApiService.getCachedData, realTimeDataService.ts lines 1579-1585
ApiGetCachedData(cache, key, now) ==
    IF ~cache[key].null /\ now - cache[key].timestamp < API_CACHE_DURATION
    THEN cache[key].data
    ELSE Null

\* what setCachedData stored
CachedEntry == [null |-> FALSE, data |-> "entry"]

CacheServices == {"RealTimeDataService", "ApiService"}

\* the TTL each service declares
CacheTTL(service) ==
    IF service = "ApiService" THEN API_CACHE_DURATION ELSE CACHE_DURATION

\* the pattern of every cached getter (lines 174-176, 1593-1595): an entry
\* is stored at storedAt by setCachedData, the key is requested at now, and
\* the getter returns the cached data or, when the read gave null, goes on
\* to its source
ApplyCacheRead ==
    /\ calcFn = "none"
    /\ \E service \in CacheServices, storedAt \in 0..MaxClock, now \in 0..MaxClock :
        /\ storedAt <= now
        /\ LET cache == setCachedData([k \in {"key"} |-> Null], "key", CachedEntry, storedAt)
               cached == IF service = "ApiService"
                         THEN ApiGetCachedData(cache, "key", now)
                         ELSE getCachedData(cache, "key", now)
           IN  /\ calcFn' = "getCachedData"
               /\ calcIn' = [service |-> service, storedAt |-> storedAt, now |-> now]
               /\ calcOut' = [toSource |-> cached.null, returned |-> cached]
    /\ UNCHANGED notCalc

\* ---- the feature vectors of the action classifier ----

\* actionPlanGenerator.ts lines 184-192, in thousandths
severityToNumber(severity) ==
    CASE severity = "critical" -> 1000
      [] severity = "high" -> 750
      [] severity = "moderate" -> 500
      [] severity = "low" -> 250
      [] OTHER -> 500

\* lines 127-138: the row trainModel builds from one training point, in
\* thousandths; noise is the value of Math.random()
TrainingFeatures(point, noise) ==
    <<point.buildingDensity * 10,
      point.vegetationIndex * 10,
      point.surfaceAlbedo * 20,
      severityToNumber(point.severity),
      point.cityTemp * 10,
      point.cityVeg * 10,
      point.cityPop \div 2000,
      (point.currentWeather * 25) \div 3,
      point.humidity * 10,
      noise>>

\* the first training pattern (line 58)
TrainingPoint ==
    [buildingDensity |-> 85, vegetationIndex |-> 15, surfaceAlbedo |-> 20,
     severity |-> "critical", cityTemp |-> 90, cityVeg |-> 20,
     cityPop |-> 1000000, currentWeather |-> 85, humidity |-> 60]

\* lines 307-327: the row predictOptimalActions passes to model.predict, in
\* thousandths; city.averageTemp and city.vegetationCoverage are held in
\* thousandths
PredictFeatures(zone, city, w, e, energy) ==
    LET currentTemp ==
            IF WeatherTemperature(w) # 0 THEN WeatherTemperature(w) * 1000
            ELSE city.averageTemp
        currentHumidity == OrElse(WeatherHumidity(w), 60)
        airQuality == OrElse(WeatherAqi(w), 3)
        carbonEmissions == OrElse(EnvCarbon(e), 0)
        energyUse == IF e.null THEN 0 ELSE energy
    IN  <<zone.buildingDensity * 10,
          zone.vegetationIndex * 10,
          zone.surfaceAlbedo * 20,
          severityToNumber(zone.severity),
          city.averageTemp \div 100,
          city.vegetationCoverage \div 100,
          city.population \div 2000,
          currentTemp \div 120,
          currentHumidity * 10,
          airQuality * 200,
          carbonEmissions \div 15,
          energyUse \div 20>>

\* the trained classifier is used for a zone (lines 300-330): the width of
\* the row it is given, the width its first layer declares and the width
\* of the rows it was fitted on
ApplyClassifier ==
    /\ calcFn = "none"
    /\ \E zone \in PlanZones, city \in ZoneCities, w \in PlanWeathers \cup {Null}, e \in PlanEnvs \cup {Null}, energy \in {0, 12000} :
        LET input == PredictFeatures(zone, city, w, e, energy)
        IN  /\ calcFn' = "predictOptimalActions"
            /\ calcIn' = [trained |-> TRUE, input |-> input]
            /\ calcOut' = [featureCount |-> Len(input),
                           inputShape |-> ModelInputWidth,
                           trainedOn |-> Len(TrainingFeatures(TrainingPoint, 500))]
    /\ UNCHANGED notCalc

InitCalc ==
    /\ IdleCalc
    /\ IdleFetch
    /\ fxSilent = {}
    /\ IdlePlans
    /\ gpTrained = FALSE
    /\ IdleZones
    /\ gzTrained = FALSE
    /\ IdleEnv
    /\ IdleSession
    /\ strictDev = FALSE

NextCalc ==
    \/ ApplyHeatIndex
    \/ ApplyPredictFuture
    \/ ApplyAnalyzeImpact
    \/ ApplyAQIComponent
    \/ ApplyBuildEnvironmentalData
    \/ ApplyPredictionWeather
    \/ ApplyHealthRisk
    \/ ApplyFootprint
    \/ ApplyCacheRead
    \/ ApplyClassifier

SpecCalc == InitCalc /\ [][NextCalc]_vars


(***************************************************************************)
(* C1: within one generatePlans run no two plans of the returned list have *)
(* the same action type.                                                   *)
(***************************************************************************)
C1_NoDuplicateActionType ==
    gpState = "resolved" =>
        \A i, j \in 1..Len(gpPlans) :
            i # j => gpPlans[i].type # gpPlans[j].type

(***************************************************************************)
(* C8: every zone that generatePlans processes gets min(quota, number of   *)
(* the eight action types not yet used when the zone is reached) plans,    *)
(* the quota being 3 for a critical zone, 2 for a high one, 1 otherwise.   *)
(***************************************************************************)
C8_CountIsMinQuotaUnused ==
    ~gpLast.null => gpLast.emitted = Min(gpLast.quota, gpLast.unused)

(***************************************************************************)
(* C9: every zone that generateHeatZones returns has the severity that its *)
(* reported predictions.riskScore determines: critical above 75, high      *)
(* above 50, moderate above 25, low otherwise.                             *)
(***************************************************************************)
TierOfReported(riskScore) ==
    IF riskScore > 75 THEN "critical"
    ELSE IF riskScore > 50 THEN "high"
    ELSE IF riskScore > 25 THEN "moderate" ELSE "low"

C9_SeverityFromReportedRisk ==
    gzState = "resolved" =>
        \A i \in 1..Len(gzZones) :
            gzZones[i].severity = TierOfReported(gzZones[i].riskScore)

(***************************************************************************)
(* C10 as claimed: for the synthetic city with a snapshot of 95 degrees    *)
(* and 30 percent humidity and an untrained predictor, every zone has a    *)
(* temperatureIncrease between 0 and 15 and is critical or high.           *)
(***************************************************************************)
SyntheticRun ==
    /\ gzState = "resolved"
    /\ ~gzTrained
    /\ gzCity.id = "synthetic"
    /\ gzClimate.temperature = 95
    /\ gzClimate.humidity = 30

C10_SyntheticCriticalOrHigh ==
    SyntheticRun =>
        \A i \in 1..Len(gzZones) :
            /\ gzZones[i].temperatureIncrease >= 0
            /\ gzZones[i].temperatureIncrease <= 15
            /\ gzZones[i].severity \in {"critical", "high"}

(***************************************************************************)
(* C10 as amended: in that run every zone has a temperatureIncrease        *)
(* between 0 and 15 and none is critical or high: the zones are moderate   *)
(* or low, Downtown Core being moderate with a risk score of 41.           *)
(***************************************************************************)
C10_SyntheticModerateOrLow ==
    SyntheticRun =>
        /\ Len(gzZones) = 6
        /\ \A i \in 1..Len(gzZones) :
              /\ gzZones[i].temperatureIncrease >= 0
              /\ gzZones[i].temperatureIncrease <= 15
              /\ gzZones[i].severity \in {"moderate", "low"}
        /\ \E i \in 1..Len(gzZones) :
              /\ gzZones[i].name = "Downtown Core"
              /\ gzZones[i].severity = "moderate"
              /\ gzZones[i].riskScore = 41

C10_Witness ==
    /\ SyntheticRun
    /\ Len(gzZones) = 6
    /\ \E i \in 1..Len(gzZones) : gzZones[i].severity = "low"

(***************************************************************************)
(* C2: a call of getRealTimeEnvironmentalData during which some but not    *)
(* all of the sources fail returns a snapshot and does not raise.          *)
(***************************************************************************)
C2_PartialFailureResolves ==
    \A i \in 1..Len(envCalls) :
        (/\ envCalls[i].state # "pending"
         /\ envCalls[i].failed # {}
         /\ envCalls[i].failed # Sources)
        => /\ envCalls[i].state = "resolved"
           /\ ~envCalls[i].result.null

C3_EntryPointsNeverReject ==
    \A st \in {"zones", "plans", "impact"} : anStatus[st] # "rejected"

(***************************************************************************)
(* C4: once a 30 s timer has fired before training completed, no model     *)
(* becomes trained and no prediction is made by a trained model.           *)
(***************************************************************************)
C4_TimeoutAbandonsTraining ==
    earlyTimeout =>
        /\ \A m \in ModelSet : ~trainedAfterTimeout[m]
        /\ ~anTrainedAfterTimeout

C6_FailedModelStaysUntrained ==
    \A m \in ModelSet :
        trainFailed[m] =>
            /\ ~isTrained[m]
            /\ ~trainedAfterFail[m]
            /\ ~calledAfterFail[m]


\* calculateUrbanHeatIndex was applied to a temperature and a humidity
HeatIndexApplied == calcFn = "calculateUrbanHeatIndex"

(***************************************************************************)
(* C11: calculateUrbanHeatIndex returns the temperature unchanged below 80 *)
(* and a value not below the temperature from 80 on, at any humidity.      *)
(***************************************************************************)
C11_HeatIndexNotBelowTemperature ==
    HeatIndexApplied =>
        IF calcIn.temperature < 800
        THEN calcOut = calcIn.temperature
        ELSE calcOut >= calcIn.temperature

(***************************************************************************)
(* C11 as the code has it: unchanged below 80; from 80 on the rounded      *)
(* value of 1.1 T - 10.3 + 0.047 H, which is less than 3 below the         *)
(* temperature and not below it when the humidity is 60 or more.           *)
(***************************************************************************)
C11_HeatIndexFromFormula ==
    HeatIndexApplied =>
        IF calcIn.temperature < 800
        THEN calcOut = calcIn.temperature
        ELSE /\ calcOut > calcIn.temperature - 30
             /\ calcIn.humidity >= 60 => calcOut >= calcIn.temperature

\* a hot and humid reading whose heat index lies above the temperature
C11_Witness ==
    /\ HeatIndexApplied
    /\ calcIn.temperature >= 800
    /\ calcIn.humidity >= 60
    /\ calcOut > calcIn.temperature


\* predictFutureClimate was applied
PredictFutureApplied == calcFn = "predictFutureClimate"

(***************************************************************************)
(* C13: predictFutureClimate returns exactly one prediction for each       *)
(* 5-year step from currentYear + 5 through currentYear + 50, in strictly  *)
(* increasing year order, and nothing else.                                *)
(***************************************************************************)
C13_OnePredictionPerStep ==
    PredictFutureApplied =>
        /\ Len(calcOut) = 10
        /\ \A i \in 1 .. Len(calcOut) :
               calcOut[i].year = calcIn.currentYear + 5 * i

\* a run whose last prediction is for currentYear + 50
C13_Witness ==
    /\ PredictFutureApplied
    /\ calcOut # <<>>
    /\ calcOut[1].year = calcIn.currentYear + 5
    /\ calcOut[Len(calcOut)].year = calcIn.currentYear + 50

(***************************************************************************)
(* C14: in every prediction seaLevelRise is exactly 0 when the city's      *)
(* coastalDistance is 100 or more and strictly positive when it is less.   *)
(***************************************************************************)
C14_SeaLevelRiseByCoast ==
    PredictFutureApplied =>
        \A i \in 1 .. Len(calcOut) :
            IF calcIn.coastalDistance >= 100
            THEN calcOut[i].seaLevelRise = 0
            ELSE calcOut[i].seaLevelRise > 0

\* a coastal city (distance 5) with a positive rise in its first year
C14_Witness ==
    /\ PredictFutureApplied
    /\ calcIn.coastalDistance = 5
    /\ calcOut # <<>>
    /\ calcOut[1].seaLevelRise = 2


\* analyzeClimateImpact was applied
AnalyzeImpactApplied == calcFn = "analyzeClimateImpact"

(***************************************************************************)
(* C12: every ClimateImpact returned by analyzeClimateImpact, trained or   *)
(* untrained, carries the prediction series in futurePredictions, not an   *)
(* empty list.                                                             *)
(***************************************************************************)
C12_FuturePredictionsPresent ==
    AnalyzeImpactApplied => calcOut.futurePredictions # <<>>

\* the urgency of an impact score (in thousandths) by the documented
\* thresholds
UrgencyOf(impactScore) ==
    CASE impactScore > 700 -> "critical"
      [] impactScore <= 700 /\ impactScore > 500 -> "high"
      [] impactScore <= 500 /\ impactScore > 300 -> "medium"
      [] impactScore <= 300 -> "low"

(***************************************************************************)
(* C15: in the trained and in the untrained path adaptationUrgency is      *)
(* determined by impactScore alone: critical above 0.7, else high above    *)
(* 0.5, else medium above 0.3, else low.                                   *)
(***************************************************************************)
C15_UrgencyFromImpactScore ==
    AnalyzeImpactApplied =>
        calcOut.adaptationUrgency = UrgencyOf(calcOut.impactScore)

\* an untrained analysis whose impact score lies exactly on a threshold
C15_Witness ==
    /\ AnalyzeImpactApplied
    /\ ~calcIn.trained
    /\ calcOut.impactScore = 300
    /\ calcOut.adaptationUrgency = "low"


(***************************************************************************)
(* C16: the list returned by generateHeatZones is ordered by               *)
(* non-increasing predictions.riskScore.                                   *)
(***************************************************************************)
C16_ZonesByDescendingRisk ==
    gzState = "resolved" =>
        \A i \in 1 .. Len(gzZones) - 1 :
            gzZones[i].riskScore >= gzZones[i + 1].riskScore

\* a returned list whose first zone is not the first one configured and
\* has a higher risk score than the last
C16_Witness ==
    /\ gzState = "resolved"
    /\ Len(gzZones) >= 2
    /\ gzZones[1].name # generateCitySpecificZones(gzCity)[1].name
    /\ gzZones[1].riskScore > gzZones[Len(gzZones)].riskScore


\* calculateAQIComponent was applied
AQIComponentApplied == calcFn = "calculateAQIComponent"

(***************************************************************************)
(* C17: for every pollutant table and every row [lowConc, highConc,        *)
(* lowAQI, highAQI], calculateAQIComponent returns exactly lowAQI at       *)
(* lowConc and exactly highAQI at highConc.                                *)
(***************************************************************************)
C17_BreakpointsExact ==
    AQIComponentApplied =>
        \A i \in 1 .. Len(breakpoints[calcIn.pollutant]) :
            LET row == breakpoints[calcIn.pollutant][i]
            IN  /\ calcIn.value = row[1] => calcOut = row[3]
                /\ calcIn.value = row[2] => calcOut = row[4]

\* PM2.5 at 12.1 gives 51
C17_Witness ==
    /\ AQIComponentApplied
    /\ calcIn.pollutant = "pm25"
    /\ calcIn.value = 12100
    /\ calcOut = 51


\* the object literal of getRealTimeEnvironmentalData was built
SnapshotBuilt == calcFn = "getRealTimeEnvironmentalData"

(***************************************************************************)
(* C20: a field of the snapshot whose external source resolved with a      *)
(* value that is not null (0 included) carries exactly that value.         *)
(***************************************************************************)
C20_ExternalValuePreferred ==
    SnapshotBuilt =>
        /\ ~calcIn.carbonData.null =>
               calcOut.carbonEmissions = calcIn.carbonData.emissions
        /\ ~calcIn.energyData.null =>
               calcOut.energyConsumption = calcIn.energyData.consumption
        /\ ~calcIn.nasaData.null =>
               /\ calcOut.vegetationIndex = calcIn.nasaData.vegetationIndex
               /\ calcOut.surfaceTemperature = calcIn.nasaData.surfaceTemperature
        /\ ~calcIn.airQualityData.null =>
               calcOut.airPollutionLevel = calcIn.airQualityData.aqi * 1000
        /\ ~calcIn.vulnerableData.null =>
               calcOut.vulnerablePopulations = calcIn.vulnerableData.total


\* the call has completed, with a snapshot or with an error
FetchCompleted == fxPc["join"] \in {"resolved", "rejected"}

(***************************************************************************)
(* C18: every call to getRealTimeEnvironmentalData eventually completes,   *)
(* with a snapshot or an error, even if a data source never answers.       *)
(***************************************************************************)
C18_CallCompletes == <>FetchCompleted

(***************************************************************************)
(* C19: within one call, once a request to an external source has failed,  *)
(* no further request is issued to that source.                            *)
(***************************************************************************)
C19_NoRequestAfterFailure == fxRetried = {}

\* predictTemperatureIncrease was called for a zone of a city
PredictionWeatherApplied == calcFn = "predictTemperatureIncrease"

(***************************************************************************)
(* C21: trained or untrained, the temperature and humidity a zone's        *)
(* temperatureIncrease is predicted from are those of the climate snapshot *)
(* generateHeatZones obtained for the zone's own city.                     *)
(***************************************************************************)
C21_PredictedFromCitySnapshot ==
    PredictionWeatherApplied =>
        /\ calcOut.temperature = calcIn.climate.temperature
        /\ calcOut.humidity = calcIn.climate.humidity

(***************************************************************************)
(* C22: trained or untrained, for any non-empty zone list and any city,    *)
(* the impactScore from which analyzeClimateImpact derives economicImpact, *)
(* adaptationUrgency, vulnerablePopulations and infrastructureRisk lies in *)
(* [0, 1] (0 .. 1000 thousandths).                                         *)
(***************************************************************************)
C22_ImpactScoreInUnitInterval ==
    AnalyzeImpactApplied =>
        /\ calcOut.impactScore >= 0
        /\ calcOut.impactScore <= 1000

\* analyzeClimateImpact computed the healthRiskScore of a ClimateImpact
HealthRiskApplied == calcFn = "healthRiskScore"

(***************************************************************************)
(* C23: trained or untrained, and for every air-pollution level the        *)
(* snapshot can carry, the healthRiskScore of a ClimateImpact lies in      *)
(* [0, 1] (0 .. 1000 thousandths).                                         *)
(***************************************************************************)
C23_HealthRiskInUnitInterval ==
    HealthRiskApplied =>
        /\ calcOut.healthRiskScore >= 0
        /\ calcOut.healthRiskScore <= 1000

\* analyzeClimateImpact computed carbonFootprint and energyConsumption
FootprintApplied == calcFn = "carbonFootprint"

(***************************************************************************)
(* C24: trained or untrained, carbonFootprint and energyConsumption equal  *)
(* the live snapshot's carbonEmissions and energyConsumption whenever the  *)
(* aggregator can supply a snapshot, and the city's population times a     *)
(* fixed per-capita constant (0.012 and 0.015) otherwise.                  *)
(***************************************************************************)
C24_FootprintFromSnapshotOrPerCapita ==
    FootprintApplied =>
        IF ~calcIn.snapshot.null
        THEN /\ calcOut.carbonFootprint = Dec(calcIn.snapshot.carbonEmissions, 0)
             /\ calcOut.energyConsumption = Dec(calcIn.snapshot.energyConsumption, 0)
        ELSE /\ calcOut.carbonFootprint = PerCapita(calcIn.population, 12)
             /\ calcOut.energyConsumption = PerCapita(calcIn.population, 15)

(***************************************************************************)
(* C25: within one generatePlans run, an action type emitted for one zone  *)
(* is never emitted for a zone processed later in the same run.            *)
(***************************************************************************)
C25_TypeNotReusedByLaterZone ==
    \A i, j \in 1..Len(gpPlans) :
        gpPlans[i].zone < gpPlans[j].zone => gpPlans[i].type # gpPlans[j].type

\* a run that emitted plans for its first and for its last zone, the last
\* zone being reached with some types already used
C25_Witness ==
    /\ gpState = "resolved"
    /\ gpZoneNo = MaxZones
    /\ ~gpLast.null /\ gpLast.emitted > 0 /\ gpLast.unused < 8
    /\ \E i, j \in 1..Len(gpPlans) : gpPlans[i].zone = 1 /\ gpPlans[j].zone = MaxZones

\* a key was requested from a service whose cache holds an entry for it
CacheReadApplied == calcFn = "getCachedData"

(***************************************************************************)
(* C26: a cache read never returns an entry whose age has reached the      *)
(* cache TTL (2 minutes in RealTimeDataService, 5 in ApiService): once an  *)
(* entry has expired, the request for its key goes to the source again.    *)
(***************************************************************************)
C26_ExpiredEntryNotReturned ==
    CacheReadApplied =>
        LET age == calcIn.now - calcIn.storedAt
        IN  /\ ~calcOut.returned.null => age < CacheTTL(calcIn.service)
            /\ age >= CacheTTL(calcIn.service) => calcOut.toSource

\* an entry read at the very minute its TTL is reached
C26_Witness ==
    /\ CacheReadApplied
    /\ calcIn.now - calcIn.storedAt = CacheTTL(calcIn.service)
    /\ calcOut.toSource

(***************************************************************************)
(* C27: whenever heat zones, action plans, climate impact or future        *)
(* predictions are held in the state of App for display, they were         *)
(* computed for the currently selected city, also when the user selects a  *)
(* different city while an analysis is in flight.                          *)
(***************************************************************************)
C27_ShownResultsOfSelectedCity ==
    \A f \in {"heatZones", "actionPlans", "climateImpact", "futurePredictions"} :
        shown[f] # "none" => shown[f] = selectedCity

(***************************************************************************)
(* C28: selecting a city clears every result of the previous analysis:     *)
(* heat zones, selected zone, environmental data, action plans, climate    *)
(* impact and future predictions.                                          *)
(***************************************************************************)
C28_SelectClearsEveryResult ==
    [][SelectCity => \A f \in Results : shown'[f] = "none"]_vars

(***************************************************************************)
(* C29: within one generateHeatZones call all zones are predicted in the   *)
(* same predictor state, all by the untrained formula or all by the        *)
(* trained network, also when a training call completes while the call is  *)
(* running.                                                                *)
(***************************************************************************)
C29_ZonesInOnePredictorState ==
    \A i, j \in 1..Len(anPaths) : anPaths[i] = anPaths[j]

\* a call that started with the predictor untrained, during which the
\* training completed, and that predicted all its zones
C29_Witness ==
    /\ anStatus["zones"] = "resolved"
    /\ Len(anPaths) = ZonesPerRun
    /\ ~anHeatAtStart
    /\ \A i \in 1..Len(anPaths) : anPaths[i]

\* the trained action classifier was given a feature vector
ClassifierApplied == calcFn = "predictOptimalActions"

(***************************************************************************)
(* C30: whenever the trained action classifier is used, the feature vector *)
(* passed to it has as many features as the model's declared input width   *)
(* and as the vectors it was trained on.                                   *)
(***************************************************************************)
C30_FeatureWidthsAgree ==
    ClassifierApplied =>
        /\ calcOut.featureCount = calcOut.inputShape
        /\ calcOut.featureCount = calcOut.trainedOn

=============================================================================
